---------------------------- MODULE Spec2Model ----------------------------
(***************************************************************************)
(* Model of the multi-agent translation pipeline                           *)
(* (core/translation_service.py, agents/*.py, quality/*.py, api/models.py).*)
(*                                                                         *)
(* Conventions                                                             *)
(*   - a Python dict is a record whose DOMAIN is the set of keys present;  *)
(*     d.get(k, dflt) is Get(d, k, dflt), "k in d" is k \in DOMAIN d.      *)
(*   - a text is a sequence of words; str.split() is the identity on it.   *)
(*   - a float score is an integer number of hundredths (100.0 = 10000,    *)
(*     -0.25 = -25), so every threshold of the code is an integer.         *)
(*   - a raised exception is the record [exc |-> <type>].                  *)
(*   - the reply of the generation service to one call is either FAIL (the *)
(*     call raised, returned no content, or returned text json.loads       *)
(*     rejects) or the dict json.loads produced.                           *)
(*                                                                         *)
(* Specifications                                                          *)
(*   Spec       one call of translate, stage by stage                      *)
(*   SpecMQM    one call of MQMFramework.analyze on any reply              *)
(*   SpecISO    one call of ISOStandards.validate on any results dict      *)
(*   SpecBatch  one call of translate_batch with concurrent jobs           *)
(*   SpecAPI    one request body through the /translate and /batch routes *)
(*   SpecLive   Spec with the translate coroutine scheduled fairly         *)
(***************************************************************************)
EXTENDS Integers, Sequences, FiniteSets, TLC

\* ------------------------------------------------------------------ bounds
\* longest source text, in words (every flag combination is always explored)
MaxWords == 2

\* ------------------------------------------------------------- primitives
Pts(n) == n * 100

EmptyDict == [k \in {} |-> 0]

None == [none |-> TRUE]

Get(d, k, default) == IF k \in DOMAIN d THEN d[k] ELSE default

Exc(type) == [exc |-> type]

IsExc(v) == "exc" \in DOMAIN v

FAIL == [fail |-> TRUE]

IsFail(reply) == "fail" \in DOMAIN reply

\* ------------------------------------------------------------ api/models
\* translate imports QualityMode from api.models and reads request.quality_mode,
\* include_review and include_quality_assessment (translation_service.py:50-64),
\* but the api/models.py at hand declares neither the enum nor these three
\* fields; they are modelled as translate uses them (FAST, BALANCED, QUALITY).
QualityMode == {"FAST", "BALANCED", "QUALITY"}

LanguageCode == {"swedish", "dutch"}

QualityGrade == {"A", "B", "C", "D", "F"}

SeverityLevel == {"minor", "major", "critical"}

CulturalAppropriateness == {"high", "medium", "low"}

TargetAudienceFit == {"excellent", "good", "fair", "poor"}

DifficultyLevel == {"easy", "medium", "hard", "error"}

RegisterRecommendation == {"formal", "informal", "neutral"}

MQMCategory == {"accuracy", "fluency", "style", "terminology"}

InRange(v, lo, hi) == v >= lo /\ v <= hi

\* TranslationResult: the fields pydantic validates
ValidTranslationResult(m) ==
    /\ InRange(m.confidence, 0, Pts(100))
    /\ m.difficulty_level \in DifficultyLevel

ValidCulturalAnalysis(m) ==
    /\ m.cultural_appropriateness \in CulturalAppropriateness
    /\ m.register_recommendations \in RegisterRecommendation
    /\ m.target_audience_fit \in TargetAudienceFit

ValidReviewResult(m) ==
    /\ InRange(m.confidence_improvement, 0, Pts(100))
    /\ m.quality_grade \in QualityGrade

QualityDimensions ==
    {"fluency", "grammar", "accuracy", "naturalness", "vocabulary", "colloquial_usage"}

ValidQualityScores(s) ==
    /\ QualityDimensions \subseteq DOMAIN s
    /\ \A k \in QualityDimensions : InRange(s[k], 0, Pts(100))

ValidQualityAssessment(m) ==
    /\ InRange(m.overall_score, 0, Pts(100))
    /\ ValidQualityScores(m.detailed_scores)
    /\ m.error_count >= 0
    /\ m.errors_per_1000_words >= 0

MQMErrorFields == {"category", "subcategory", "severity", "description", "penalty", "location"}

ValidMQMError(e) ==
    /\ MQMErrorFields \subseteq DOMAIN e
    /\ e.category \in MQMCategory
    /\ e.severity \in SeverityLevel

ErrorSummaryFields ==
    {"total_errors", "accuracy_errors", "fluency_errors", "style_errors", "terminology_errors"}

ValidErrorSummary(s) ==
    /\ ErrorSummaryFields \subseteq DOMAIN s
    /\ \A k \in ErrorSummaryFields : s[k] >= 0

ValidMQMAnalysis(m) ==
    /\ InRange(m.total_score, 0, Pts(100))
    /\ m.word_count >= 0
    /\ \A i \in 1..Len(m.errors) : ValidMQMError(m.errors[i])
    /\ ValidErrorSummary(m.error_summary)
    /\ m.mqm_grade \in QualityGrade

ValidISOCompliance(m) == InRange(m.score, 0, Pts(100))

\* ------------------------------------------------- utils/GLOSSARY/dutch
\* the English -> Dutch glossary the translator applies to Dutch output
dutch == [tablet |-> "tablet_nl"]

\* ------------------------------------------------ agents/translator_agent
_apply_glossary(text) ==
    [i \in 1..Len(text) |-> IF text[i] \in DOMAIN dutch THEN dutch[text[i]] ELSE text[i]]

TranslatorFallback ==
    [translation |-> <<"Translation failed:", "e">>,
     confidence |-> 0,
     translation_notes |-> <<"Error in translation process">>,
     difficulty_level |-> "error",
     key_decisions |-> <<>>]

\* TranslatorAgent.translate: the try block and its catch-all except
TranslatorAgent_translate(source_text, target_language, reply) ==
    IF IsFail(reply) THEN TranslatorFallback
    ELSE IF target_language = "dutch"
         THEN IF "translation" \in DOMAIN reply
              THEN [reply EXCEPT !.translation = _apply_glossary(@)]
              ELSE TranslatorFallback
         ELSE reply

\* ------------------------------------------------ agents/cultural_advisor
CulturalFallback ==
    [cultural_appropriateness |-> "low",
     adaptations |-> <<"Cultural analysis failed: e">>,
     regional_notes |-> <<>>,
     register_recommendations |-> "neutral",
     localization_suggestions |-> <<>>,
     cultural_risks |-> <<"Unable to assess cultural context">>,
     target_audience_fit |-> "poor"]

CulturalAdvisor_analyze(source_text, initial_translation, target_language, reply) ==
    IF IsFail(reply) THEN CulturalFallback ELSE reply

\* -------------------------------------------------- agents/reviewer_agent
ReviewFallback(initial_translation) ==
    [final_translation |-> initial_translation,
     review_comments |-> <<"Review failed: e">>,
     changes_made |-> <<>>,
     confidence_improvement |-> 0,
     quality_grade |-> "F"]

ReviewerAgent_review(source_text, initial_translation, cultural_analysis, target_language, reply) ==
    IF IsFail(reply) THEN ReviewFallback(initial_translation) ELSE reply

\* ------------------------------------------------ agents/quality_assessor
QualityFallback ==
    [overall_score |-> 0,
     detailed_scores |-> [k \in QualityDimensions |-> 0],
     assessment_notes |-> <<"Assessment failed: e">>,
     strengths |-> <<>>,
     areas_for_improvement |-> <<"Quality assessment system error">>,
     industry_benchmark_met |-> FALSE,
     error_count |-> 999,
     errors_per_1000_words |-> Pts(999)]

QualityAssessor_assess(source_text, final_translation, target_language, reply) ==
    IF IsFail(reply) THEN QualityFallback ELSE reply

\* --------------------------------------------------- quality/mqm_framework
\* MQMFramework.error_categories, penalties in hundredths
error_categories ==
    [accuracy |->
        [mistranslation |-> [minor |-> -100, major |-> -500, critical |-> -2500],
         omission       |-> [minor |-> -100, major |-> -500, critical |-> -2500],
         addition       |-> [minor |-> -100, major |-> -500, critical |-> -2500],
         untranslated   |-> [minor |-> -100, major |-> -500, critical |-> -2500]],
     fluency |->
        [grammar     |-> [minor |-> -50, major |-> -200, critical |-> -500],
         spelling    |-> [minor |-> -25, major |-> -100, critical |-> -500],
         punctuation |-> [minor |-> -10, major |-> -50,  critical |-> -200],
         register    |-> [minor |-> -50, major |-> -200, critical |-> -500]],
     style |->
        [awkward            |-> [minor |-> -25, major |-> -100, critical |-> -300],
         unnatural          |-> [minor |-> -50, major |-> -200, critical |-> -500],
         inconsistent_style |-> [minor |-> -25, major |-> -100, critical |-> -300]],
     terminology |->
        [inconsistent_term |-> [minor |-> -50,  major |-> -200, critical |-> -1000],
         wrong_term        |-> [minor |-> -100, major |-> -500, critical |-> -1500]]]

MQMFallback(source_text) ==
    [total_score |-> 0,
     word_count |-> Len(source_text),
     errors |-> << [category |-> "system",
                    subcategory |-> "analysis_failure",
                    severity |-> "critical",
                    description |-> "MQM analysis failed: e",
                    penalty |-> -10000,
                    location |-> "system error"] >>,
     error_summary |-> [total_errors |-> 1, accuracy_errors |-> 0, fluency_errors |-> 0,
                        style_errors |-> 0, terminology_errors |-> 0],
     mqm_grade |-> "F",
     industry_compliance |-> FALSE]

\* MQMFramework.analyze: the reply is returned as the service gave it, only
\* total_score is forced into [0, 100]; any failure gives the fallback
MQMFramework_analyze(source_text, translation, quality_assessment, reply) ==
    IF IsFail(reply) THEN MQMFallback(source_text)
    ELSE IF Get(reply, "total_score", 0) > Pts(100)
         THEN [reply EXCEPT !.total_score = Pts(100)]
         ELSE IF Get(reply, "total_score", 0) < 0
              THEN [reply EXCEPT !.total_score = 0]
              ELSE reply

\* --------------------------------------------------- quality/iso_standards
\* ISOStandards.iso_requirements weights, in hundredths
\* a plausible slip: every area weighs the same
iso_requirements_EqualWeights ==
    [translation_competence |-> 20,
     quality_assurance      |-> 20,
     project_management     |-> 20,
     technical_resources    |-> 20,
     client_requirements    |-> 20]

iso_requirements ==
    [translation_competence |-> 25,
     quality_assurance      |-> 25,
     project_management     |-> 20,
     technical_resources    |-> 15,
     client_requirements    |-> 15]

Min(a, b) == IF a < b THEN a ELSE b

\* a plausible slip: cultural competence granted for "high" only, the rule
\* of client_requirements
_evaluate_translation_competence_HighOnly(results) ==
    LET qa == Get(results, "quality_assessment", EmptyDict)
        grammar == Get(Get(qa, "detailed_scores", EmptyDict), "grammar", 0)
        cultural_analysis == Get(results, "cultural_analysis", EmptyDict)
        overall_quality == Get(qa, "overall_score", 0)
    IN Min((IF grammar >= Pts(85) THEN 40 ELSE 0)
           + (IF Get(cultural_analysis, "cultural_appropriateness", "") = "high"
              THEN 35 ELSE 0)
           + (IF overall_quality >= Pts(85) THEN 25 ELSE 0), 100)

\* area scores are in hundredths: 0.40 is 40 and 1.0 is 100
_evaluate_translation_competence(results) ==
    LET qa == Get(results, "quality_assessment", EmptyDict)
        grammar == Get(Get(qa, "detailed_scores", EmptyDict), "grammar", 0)
        cultural_analysis == Get(results, "cultural_analysis", EmptyDict)
        overall_quality == Get(qa, "overall_score", 0)
    IN Min((IF grammar >= Pts(85) THEN 40 ELSE 0)
           + (IF Get(cultural_analysis, "cultural_appropriateness", "") \in {"high", "medium"}
              THEN 35 ELSE 0)
           + (IF overall_quality >= Pts(85) THEN 25 ELSE 0), 100)

\* a plausible slip: a missing MQM analysis counts as a perfect MQM score
_evaluate_quality_assurance_MissingMqmPasses(results) ==
    LET mqm_analysis == Get(results, "mqm_analysis", EmptyDict)
    IN Min((IF "refined_translation" \in DOMAIN results THEN 50 ELSE 0)
           + (IF Get(mqm_analysis, "total_score", Pts(100)) >= Pts(80) THEN 30 ELSE 0)
           + (IF "quality_assessment" \in DOMAIN results THEN 20 ELSE 0), 100)

_evaluate_quality_assurance(results) ==
    LET mqm_analysis == Get(results, "mqm_analysis", EmptyDict)
    IN Min((IF "refined_translation" \in DOMAIN results THEN 50 ELSE 0)
           + (IF Get(mqm_analysis, "total_score", 0) >= Pts(80) THEN 30 ELSE 0)
           + (IF "quality_assessment" \in DOMAIN results THEN 20 ELSE 0), 100)

_evaluate_project_management(results) ==
    LET review_comments ==
            Get(Get(results, "refined_translation", EmptyDict), "review_comments", <<>>)
        agent_count ==
            Cardinality(DOMAIN results \cap {"initial_translation", "cultural_analysis",
                                             "refined_translation", "quality_assessment"})
        overall_quality ==
            Get(Get(results, "quality_assessment", EmptyDict), "overall_score", 0)
    IN Min((IF Len(review_comments) > 0 THEN 40 ELSE 0)
           + (IF agent_count >= 4 THEN 30 ELSE 0)
           + (IF overall_quality >= Pts(85) THEN 30 ELSE 0), 100)

\* a plausible slip: terminology management reads the grammar dimension
_evaluate_technical_resources_ReadsGrammar(results) ==
    LET quality_scores ==
            Get(Get(results, "quality_assessment", EmptyDict), "detailed_scores", EmptyDict)
        terminology_errors ==
            Get(Get(Get(results, "mqm_analysis", EmptyDict), "error_summary", EmptyDict),
                "terminology_errors", 999)
    IN Min((IF "initial_translation" \in DOMAIN results THEN 40 ELSE 0)
           + (IF Get(quality_scores, "grammar", 0) >= Pts(85) THEN 35 ELSE 0)
           + (IF terminology_errors <= 2 THEN 25 ELSE 0), 100)

_evaluate_technical_resources(results) ==
    LET quality_scores ==
            Get(Get(results, "quality_assessment", EmptyDict), "detailed_scores", EmptyDict)
        terminology_errors ==
            Get(Get(Get(results, "mqm_analysis", EmptyDict), "error_summary", EmptyDict),
                "terminology_errors", 999)
    IN Min((IF "initial_translation" \in DOMAIN results THEN 40 ELSE 0)
           + (IF Get(quality_scores, "vocabulary", 0) >= Pts(85) THEN 35 ELSE 0)
           + (IF terminology_errors <= 2 THEN 25 ELSE 0), 100)

_evaluate_client_requirements(results) ==
    LET cultural_analysis == Get(results, "cultural_analysis", EmptyDict)
        overall_quality ==
            Get(Get(results, "quality_assessment", EmptyDict), "overall_score", 0)
    IN Min((IF Get(cultural_analysis, "target_audience_fit", "") \in {"excellent", "good"}
            THEN 40 ELSE 0)
           + (IF Get(cultural_analysis, "cultural_appropriateness", "") = "high"
              THEN 35 ELSE 0)
           + (IF overall_quality >= Pts(90) THEN 25
              ELSE IF overall_quality >= Pts(85) THEN 15 ELSE 0), 100)

\* The weighted sum is computed in binary floating point.  For exactly two
\* combinations of area scores whose exact weighted sum is 85 the float sum
\* is 84.99999999999999; every other combination compares with 85 as the
\* exact sum does.
FloatShortfall(tc, qa, pm, tr, cr) ==
    <<tc, qa, pm, tr, cr>> \in {<<100, 100, 100, 60, 40>>, <<100, 100, 100, 25, 75>>}

AreaNames ==
    <<"Translation Competence", "Quality Assurance", "Project Management",
      "Technical Resources", "Client Requirements">>

\* a plausible slip: a recommendation for every area short of a full score
NeedsRecommendation_BelowPerfect(score) == score < 100

\* lines 72-73: if score < 0.85: recommendations.append(...)
NeedsRecommendation(score) == score < 85

\* ISOStandards.validate; score in hundredths of a point
ISOStandards_validate(translation_results) ==
    LET tc == _evaluate_translation_competence(translation_results)
        qa == _evaluate_quality_assurance(translation_results)
        pm == _evaluate_project_management(translation_results)
        tr == _evaluate_technical_resources(translation_results)
        cr == _evaluate_client_requirements(translation_results)
        compliance_scores ==
            [a \in {AreaNames[i] : i \in 1..5} |->
                CASE a = AreaNames[1] -> tc
                  [] a = AreaNames[2] -> qa
                  [] a = AreaNames[3] -> pm
                  [] a = AreaNames[4] -> tr
                  [] OTHER -> cr]
        total_weighted_score ==
            tc * iso_requirements.translation_competence
            + qa * iso_requirements.quality_assurance
            + pm * iso_requirements.project_management
            + tr * iso_requirements.technical_resources
            + cr * iso_requirements.client_requirements
        overall_score ==
            total_weighted_score - (IF FloatShortfall(tc, qa, pm, tr, cr) THEN 1 ELSE 0)
    IN [compliant |-> overall_score >= Pts(85),
        score |-> overall_score,
        compliance_areas |-> [a \in DOMAIN compliance_scores |-> compliance_scores[a] >= 85],
        detailed_scores |-> compliance_scores,
        recommendations |->
            SelectSeq(AreaNames, LAMBDA a : NeedsRecommendation(compliance_scores[a])),
        iso_standard |-> "ISO 17100:2015",
        assessment_date |-> "2025-09-20"]

\* ------------------------------------------- response models (api/models)
\* Each constructor is the call the orchestrator makes: a subscript on a
\* missing key raises KeyError, a value the model rejects ValidationError.
TranslationResult(initial_result) ==
    IF ~({"translation", "confidence"} \subseteq DOMAIN initial_result) THEN Exc("KeyError")
    ELSE LET m == [translation |-> initial_result.translation,
                   confidence |-> initial_result.confidence,
                   translation_notes |-> Get(initial_result, "translation_notes", <<>>),
                   difficulty_level |-> Get(initial_result, "difficulty_level", "medium"),
                   key_decisions |-> Get(initial_result, "key_decisions", <<>>)]
         IN IF ValidTranslationResult(m) THEN m ELSE Exc("ValidationError")

CulturalAnalysis(cultural_result) ==
    IF "cultural_appropriateness" \notin DOMAIN cultural_result THEN Exc("KeyError")
    ELSE LET m == [cultural_appropriateness |-> cultural_result.cultural_appropriateness,
                   adaptations |-> Get(cultural_result, "adaptations", <<>>),
                   regional_notes |-> Get(cultural_result, "regional_notes", <<>>),
                   register_recommendations |->
                       Get(cultural_result, "register_recommendations", "neutral"),
                   localization_suggestions |->
                       Get(cultural_result, "localization_suggestions", <<>>),
                   cultural_risks |-> Get(cultural_result, "cultural_risks", <<>>),
                   target_audience_fit |-> Get(cultural_result, "target_audience_fit", "fair")]
         IN IF ValidCulturalAnalysis(m) THEN m ELSE Exc("ValidationError")

ReviewResult(review_result) ==
    IF "final_translation" \notin DOMAIN review_result THEN Exc("KeyError")
    ELSE LET m == [final_translation |-> review_result.final_translation,
                   review_comments |-> Get(review_result, "review_comments", <<>>),
                   changes_made |-> Get(review_result, "changes_made", <<>>),
                   confidence_improvement |-> Get(review_result, "confidence_improvement", 0),
                   quality_grade |-> Get(review_result, "quality_grade", "C")]
         IN IF ValidReviewResult(m) THEN m ELSE Exc("ValidationError")

QualityAssessment(quality_result) ==
    IF ~({"overall_score", "detailed_scores"} \subseteq DOMAIN quality_result)
    THEN Exc("KeyError")
    ELSE LET m == [overall_score |-> quality_result.overall_score,
                   detailed_scores |-> quality_result.detailed_scores,
                   assessment_notes |-> Get(quality_result, "assessment_notes", <<>>),
                   strengths |-> Get(quality_result, "strengths", <<>>),
                   areas_for_improvement |-> Get(quality_result, "areas_for_improvement", <<>>),
                   industry_benchmark_met |->
                       Get(quality_result, "industry_benchmark_met", FALSE),
                   error_count |-> Get(quality_result, "error_count", 0),
                   errors_per_1000_words |-> Get(quality_result, "errors_per_1000_words", 0)]
         IN IF ValidQualityAssessment(m) THEN m ELSE Exc("ValidationError")

MQMAnalysis(mqm_result) ==
    IF ~({"total_score", "word_count", "error_summary", "mqm_grade", "industry_compliance"}
            \subseteq DOMAIN mqm_result)
    THEN Exc("KeyError")
    ELSE LET m == [total_score |-> mqm_result.total_score,
                   word_count |-> mqm_result.word_count,
                   errors |-> Get(mqm_result, "errors", <<>>),
                   error_summary |-> mqm_result.error_summary,
                   mqm_grade |-> mqm_result.mqm_grade,
                   industry_compliance |-> mqm_result.industry_compliance]
         IN IF ValidMQMAnalysis(m) THEN m ELSE Exc("ValidationError")

ISOCompliance(iso_result) ==
    IF ~({"compliant", "score", "compliance_areas", "detailed_scores"}
            \subseteq DOMAIN iso_result)
    THEN Exc("KeyError")
    ELSE LET m == [compliant |-> iso_result.compliant,
                   score |-> iso_result.score,
                   compliance_areas |-> iso_result.compliance_areas,
                   detailed_scores |-> iso_result.detailed_scores,
                   recommendations |-> Get(iso_result, "recommendations", <<>>),
                   iso_standard |-> Get(iso_result, "iso_standard", "ISO 17100:2015"),
                   assessment_date |-> Get(iso_result, "assessment_date", "now")]
         IN IF ValidISOCompliance(m) THEN m ELSE Exc("ValidationError")

\* ------------------------------------------- replies of the generation service
\* samples of what json.loads can hand back for each stage: well-formed
\* payloads, a payload with a required key missing, a value out of range
TranslatorReplies ==
    {[translation |-> <<"hej">>, confidence |-> Pts(90), difficulty_level |-> "easy"],
     [translation |-> <<"neem", "tablet">>, confidence |-> Pts(80)],
     [confidence |-> Pts(90)],
     [translation |-> <<"hej">>, confidence |-> Pts(150)]}

CulturalReplies ==
    {[cultural_appropriateness |-> "high", target_audience_fit |-> "excellent",
      register_recommendations |-> "formal"],
     [cultural_appropriateness |-> "medium"],
     [target_audience_fit |-> "good"],
     [cultural_appropriateness |-> "very high", target_audience_fit |-> "good"]}

ReviewReplies ==
    {[final_translation |-> <<"hej", "du">>, review_comments |-> <<"c1">>,
      confidence_improvement |-> Pts(5), quality_grade |-> "A"],
     [final_translation |-> <<"hej", "du">>],
     [review_comments |-> <<"c1">>],
     [final_translation |-> <<"hej", "du">>, confidence_improvement |-> -Pts(5)]}

QualityReplies ==
    {[overall_score |-> Pts(92), detailed_scores |-> [k \in QualityDimensions |-> Pts(90)],
      industry_benchmark_met |-> TRUE, error_count |-> 0, errors_per_1000_words |-> 0],
     [overall_score |-> Pts(70), detailed_scores |-> [k \in QualityDimensions |-> Pts(70)]],
     [detailed_scores |-> [k \in QualityDimensions |-> Pts(90)]],
     [overall_score |-> Pts(120), detailed_scores |-> [k \in QualityDimensions |-> Pts(90)]]}

MistranslationMajor ==
    [category |-> "accuracy", subcategory |-> "mistranslation", severity |-> "major",
     description |-> "d", penalty |-> -500, location |-> "l"]

SpellingMinor ==
    [category |-> "fluency", subcategory |-> "spelling", severity |-> "minor",
     description |-> "d", penalty |-> -25, location |-> "l"]

Summary(total, acc, flu, sty, term) ==
    [total_errors |-> total, accuracy_errors |-> acc, fluency_errors |-> flu,
     style_errors |-> sty, terminology_errors |-> term]

PipelineMQMReplies ==
    {[total_score |-> 9475, word_count |-> 2, errors |-> <<MistranslationMajor, SpellingMinor>>,
      error_summary |-> Summary(2, 1, 1, 0, 0), mqm_grade |-> "A",
      industry_compliance |-> TRUE],
     [total_score |-> Pts(120), word_count |-> 2, errors |-> <<>>,
      error_summary |-> Summary(0, 0, 0, 0, 0), mqm_grade |-> "A",
      industry_compliance |-> TRUE],
     [total_score |-> Pts(90), word_count |-> 2, errors |-> <<>>,
      error_summary |-> Summary(0, 0, 0, 0, 0)]}

\* ------------------------------------------------------------- the state
VARIABLES
    request,              \* the caller's TranslationRequest object (mutated in place)
    submitted,            \* the request as the caller built it, before the call
    pc,                   \* position of TranslationService.translate
    results,              \* the results dict of translate
    initial_translation,  \* local response models of translate, None until built
    cultural_analysis,
    refined_translation,
    quality_assessment,
    mqm_analysis,
    iso_compliance,
    final_text,           \* text handed to quality_assess and mqm
    advanced_tasks,       \* task types gathered in phase 5, in list order
    call,                 \* per stage: the executor call of its agent function
    response,             \* the TranslationResponse returned, None before
    raised,               \* the exception translate raised, None if none
    requests,             \* translate_batch: the list of request objects it was called with
    batch_tasks,          \* translate_batch: tasks, one translate coroutine per request
    finished,             \* the jobs that have returned or raised, in the order they did
    batch_pc,             \* position of TranslationService.translate_batch
    batch_response,       \* what translate_batch returned, or the exception it raised
    invocations,          \* how often each stage function has run in the executor
    submission,           \* the body of the HTTP request a route was called with
    api_pc,               \* position of the route handler
    api_response          \* the HTTP error the route answered with, None if none

vars ==
    <<request, submitted, pc, results, initial_translation, cultural_analysis,
      refined_translation, quality_assessment, mqm_analysis, iso_compliance,
      final_text, advanced_tasks, call, response, raised,
      requests, batch_tasks, finished, batch_pc, batch_response,
      invocations, submission, api_pc, api_response>>

batch_vars == <<requests, batch_tasks, finished, batch_pc, batch_response>>

\* no batch is in progress
NoBatch ==
    /\ requests = <<>>
    /\ batch_tasks = <<>>
    /\ finished = <<>>
    /\ batch_pc = "idle"
    /\ batch_response = None

api_vars == <<submission, api_pc, api_response>>

\* no route handler is involved: translate or translate_batch is called
\* directly
NoApi ==
    /\ submission = None
    /\ api_pc = "idle"
    /\ api_response = None

Stages == {"translate", "cultural", "review", "quality_assess", "mqm", "iso"}

\* st: idle, running (dispatched to the executor), done; args: the arguments
\* of the dispatch; reply: what the generation service answered; ret: the
\* value the agent function returned
Idle == [st |-> "idle", args |-> <<>>, reply |-> None, ret |-> None]

Running(args) == [st |-> "running", args |-> args, reply |-> None, ret |-> None]

\* a plausible slip: a failed call stays dispatched and is made again
Done_RetriesFailedCall(c, reply, ret) ==
    IF IsFail(reply) THEN c ELSE [c EXCEPT !.st = "done", !.reply = reply, !.ret = ret]

Done(c, reply, ret) == [c EXCEPT !.st = "done", !.reply = reply, !.ret = ret]

\* source texts: validate_source_text leaves a non-empty, stripped text
SourceTexts == {[i \in 1..n |-> "tablet"] : n \in 1..MaxWords}

Requests ==
    [source_text : SourceTexts,
     target_language : LanguageCode,
     quality_mode : QualityMode,
     include_review : BOOLEAN,
     include_cultural_analysis : BOOLEAN,
     include_quality_assessment : BOOLEAN,
     include_mqm_analysis : BOOLEAN,
     include_iso_compliance : BOOLEAN]

Init ==
    /\ request \in Requests
    /\ submitted = request
    /\ pc = "entry"
    /\ results = EmptyDict
    /\ initial_translation = None
    /\ cultural_analysis = None
    /\ refined_translation = None
    /\ quality_assessment = None
    /\ mqm_analysis = None
    /\ iso_compliance = None
    /\ final_text = <<>>
    /\ advanced_tasks = <<>>
    /\ call = [s \in Stages |-> Idle]
    /\ response = None
    /\ raised = None
    /\ invocations = [s \in Stages |-> 0]
    /\ NoBatch
    /\ NoApi

\* ------------------------------------- core/translation_service: translate
\* lines 233-235: the catch-all handler re-raises as a plain Exception
Raise(e) ==
    /\ pc' = "raised"
    /\ raised' = [exc |-> "Exception", message |-> <<"Translation failed:", e.exc>>]

\* plausible slips in the mode table
OverrideFlags_FastKeepsIso(req) ==
    IF req.quality_mode = "FAST"
    THEN [req EXCEPT !.include_review = TRUE,
                     !.include_cultural_analysis = FALSE,
                     !.include_quality_assessment = FALSE,
                     !.include_mqm_analysis = FALSE]
    ELSE IF req.quality_mode = "BALANCED"
         THEN [req EXCEPT !.include_review = TRUE,
                          !.include_cultural_analysis = TRUE,
                          !.include_quality_assessment = TRUE,
                          !.include_mqm_analysis = FALSE,
                          !.include_iso_compliance = FALSE]
         ELSE req

OverrideFlags_BalancedKeepsMqm(req) ==
    IF req.quality_mode = "FAST"
    THEN [req EXCEPT !.include_review = TRUE,
                     !.include_cultural_analysis = FALSE,
                     !.include_quality_assessment = FALSE,
                     !.include_mqm_analysis = FALSE,
                     !.include_iso_compliance = FALSE]
    ELSE IF req.quality_mode = "BALANCED"
         THEN [req EXCEPT !.include_review = TRUE,
                          !.include_cultural_analysis = TRUE,
                          !.include_quality_assessment = TRUE,
                          !.include_iso_compliance = FALSE]
         ELSE req

OverrideFlags_QualityForcesAll(req) ==
    IF req.quality_mode = "FAST"
    THEN [req EXCEPT !.include_review = TRUE,
                     !.include_cultural_analysis = FALSE,
                     !.include_quality_assessment = FALSE,
                     !.include_mqm_analysis = FALSE,
                     !.include_iso_compliance = FALSE]
    ELSE IF req.quality_mode = "BALANCED"
         THEN [req EXCEPT !.include_review = TRUE,
                          !.include_cultural_analysis = TRUE,
                          !.include_quality_assessment = TRUE,
                          !.include_mqm_analysis = FALSE,
                          !.include_iso_compliance = FALSE]
         ELSE [req EXCEPT !.include_review = TRUE,
                          !.include_cultural_analysis = TRUE,
                          !.include_quality_assessment = TRUE,
                          !.include_mqm_analysis = TRUE,
                          !.include_iso_compliance = TRUE]

\* lines 53-67: the flags the quality mode forces onto the request;
\* QUALITY keeps all flags as provided
OverrideFlags(req) ==
    IF req.quality_mode = "FAST"
    THEN [req EXCEPT !.include_review = TRUE,
                     !.include_cultural_analysis = FALSE,
                     !.include_quality_assessment = FALSE,
                     !.include_mqm_analysis = FALSE,
                     !.include_iso_compliance = FALSE]
    ELSE IF req.quality_mode = "BALANCED"
         THEN [req EXCEPT !.include_review = TRUE,
                          !.include_cultural_analysis = TRUE,
                          !.include_quality_assessment = TRUE,
                          !.include_mqm_analysis = FALSE,
                          !.include_iso_compliance = FALSE]
         ELSE req

\* lines 45-67: the override is written into the caller's request object
ApplyQualityMode ==
    /\ pc = "entry"
    /\ request' = OverrideFlags(request)
    /\ pc' = "phase1"
    /\ UNCHANGED <<submitted, results, initial_translation, cultural_analysis,
                   refined_translation, quality_assessment, mqm_analysis, iso_compliance,
                   final_text, advanced_tasks, call, response, raised>>
    /\ UNCHANGED batch_vars
    /\ UNCHANGED invocations
    /\ UNCHANGED api_vars

\* lines 69-74: the translator is handed to the executor and translate awaits it
Phase1 ==
    /\ pc = "phase1"
    /\ call' = [call EXCEPT !["translate"] =
                   Running(<<request.source_text, request.target_language>>)]
    /\ pc' = "await_translate"
    /\ UNCHANGED <<request, submitted, results, initial_translation, cultural_analysis,
                   refined_translation, quality_assessment, mqm_analysis, iso_compliance,
                   final_text, advanced_tasks, response, raised>>
    /\ UNCHANGED batch_vars
    /\ UNCHANGED invocations
    /\ UNCHANGED api_vars

\* lines 76-90
Phase1Resume ==
    /\ pc = "await_translate"
    /\ call["translate"].st = "done"
    /\ LET initial_result == call["translate"].ret
           m == TranslationResult(initial_result)
       IN IF IsExc(m)
          THEN /\ Raise(m)
               /\ UNCHANGED <<initial_translation, results>>
          ELSE /\ initial_translation' = m
               /\ results' = [initial_translation |-> initial_result,
                              request_id |-> "request_id",
                              source_text |-> request.source_text,
                              target_language |-> request.target_language]
               /\ pc' = "phase2"
               /\ UNCHANGED raised
    /\ UNCHANGED <<request, submitted, cultural_analysis, refined_translation,
                   quality_assessment, mqm_analysis, iso_compliance, final_text,
                   advanced_tasks, call, response>>
    /\ UNCHANGED batch_vars
    /\ UNCHANGED invocations
    /\ UNCHANGED api_vars

\* lines 92-100
Phase2 ==
    /\ pc = "phase2"
    /\ IF request.include_cultural_analysis
       THEN /\ call' = [call EXCEPT !["cultural"] =
                           Running(<<request.source_text,
                                     results.initial_translation.translation,
                                     request.target_language>>)]
            /\ pc' = "await_cultural"
       ELSE /\ pc' = "phase3"
            /\ UNCHANGED call
    /\ UNCHANGED <<request, submitted, results, initial_translation, cultural_analysis,
                   refined_translation, quality_assessment, mqm_analysis, iso_compliance,
                   final_text, advanced_tasks, response, raised>>
    /\ UNCHANGED batch_vars
    /\ UNCHANGED invocations
    /\ UNCHANGED api_vars

\* lines 102-111
Phase2Resume ==
    /\ pc = "await_cultural"
    /\ call["cultural"].st = "done"
    /\ LET cultural_result == call["cultural"].ret
           m == CulturalAnalysis(cultural_result)
       IN IF IsExc(m)
          THEN /\ Raise(m)
               /\ UNCHANGED <<cultural_analysis, results>>
          ELSE /\ cultural_analysis' = m
               /\ results' = results @@ [cultural_analysis |-> cultural_result]
               /\ pc' = "phase3"
               /\ UNCHANGED raised
    /\ UNCHANGED <<request, submitted, initial_translation, refined_translation,
                   quality_assessment, mqm_analysis, iso_compliance, final_text,
                   advanced_tasks, call, response>>
    /\ UNCHANGED batch_vars
    /\ UNCHANGED invocations
    /\ UNCHANGED api_vars

\* a plausible slip: results.get("cultural_analysis") without the {} default
ReviewArgs_NullCulturalContext(req, res) ==
    <<req.source_text,
      res.initial_translation.translation,
      Get(res, "cultural_analysis", None),
      req.target_language>>

\* a plausible slip: the reviewer is never given the cultural analysis
ReviewArgs_NoCulturalContext(req, res) ==
    <<req.source_text, res.initial_translation.translation, EmptyDict, req.target_language>>

\* lines 118-121: the arguments of reviewer.review
ReviewArgs(req, res) ==
    <<req.source_text,
      res.initial_translation.translation,
      Get(res, "cultural_analysis", EmptyDict),
      req.target_language>>

\* lines 113-122
Phase3 ==
    /\ pc = "phase3"
    /\ IF request.include_review
       THEN /\ call' = [call EXCEPT !["review"] = Running(ReviewArgs(request, results))]
            /\ pc' = "await_review"
       ELSE /\ pc' = "phase4"
            /\ UNCHANGED call
    /\ UNCHANGED <<request, submitted, results, initial_translation, cultural_analysis,
                   refined_translation, quality_assessment, mqm_analysis, iso_compliance,
                   final_text, advanced_tasks, response, raised>>
    /\ UNCHANGED batch_vars
    /\ UNCHANGED invocations
    /\ UNCHANGED api_vars

\* lines 124-131
Phase3Resume ==
    /\ pc = "await_review"
    /\ call["review"].st = "done"
    /\ LET review_result == call["review"].ret
           m == ReviewResult(review_result)
       IN IF IsExc(m)
          THEN /\ Raise(m)
               /\ UNCHANGED <<refined_translation, results>>
          ELSE /\ refined_translation' = m
               /\ results' = results @@ [refined_translation |-> review_result]
               /\ pc' = "phase4"
               /\ UNCHANGED raised
    /\ UNCHANGED <<request, submitted, initial_translation, cultural_analysis,
                   quality_assessment, mqm_analysis, iso_compliance, final_text,
                   advanced_tasks, call, response>>
    /\ UNCHANGED batch_vars
    /\ UNCHANGED invocations
    /\ UNCHANGED api_vars

\* a plausible slip: the quality checks always read the initial translation
FinalText_AlwaysInitial(refined, res) == res.initial_translation.translation

\* lines 134-138: the text handed to the quality checks
FinalText(refined, res) ==
    IF refined # None
    THEN refined.final_translation
    ELSE res.initial_translation.translation

\* lines 133-148
Phase4 ==
    /\ pc = "phase4"
    /\ final_text' = FinalText(refined_translation, results)
    /\ IF request.include_quality_assessment
       THEN /\ call' = [call EXCEPT !["quality_assess"] =
                           Running(<<request.source_text, final_text',
                                     request.target_language>>)]
            /\ pc' = "await_quality"
       ELSE /\ pc' = "phase5"
            /\ UNCHANGED call
    /\ UNCHANGED <<request, submitted, results, initial_translation, cultural_analysis,
                   refined_translation, quality_assessment, mqm_analysis, iso_compliance,
                   advanced_tasks, response, raised>>
    /\ UNCHANGED batch_vars
    /\ UNCHANGED invocations
    /\ UNCHANGED api_vars

\* lines 150-160
Phase4Resume ==
    /\ pc = "await_quality"
    /\ call["quality_assess"].st = "done"
    /\ LET quality_result == call["quality_assess"].ret
           m == QualityAssessment(quality_result)
       IN IF IsExc(m)
          THEN /\ Raise(m)
               /\ UNCHANGED <<quality_assessment, results>>
          ELSE /\ quality_assessment' = m
               /\ results' = results @@ [quality_assessment |-> quality_result]
               /\ pc' = "phase5"
               /\ UNCHANGED raised
    /\ UNCHANGED <<request, submitted, initial_translation, cultural_analysis,
                   refined_translation, mqm_analysis, iso_compliance, final_text,
                   advanced_tasks, call, response>>
    /\ UNCHANGED batch_vars
    /\ UNCHANGED invocations
    /\ UNCHANGED api_vars

\* lines 162-188: the task list is built, then gather starts every task of it
Phase5 ==
    /\ pc = "phase5"
    /\ LET mqm == request.include_mqm_analysis /\ quality_assessment # None
           iso == request.include_iso_compliance
       IN /\ advanced_tasks' = (IF mqm THEN <<"mqm">> ELSE <<>>)
                               \o (IF iso THEN <<"iso">> ELSE <<>>)
          /\ call' = [call EXCEPT
                 !["mqm"] = IF mqm
                            THEN Running(<<request.source_text, final_text,
                                           Get(results, "quality_assessment", EmptyDict)>>)
                            ELSE @,
                 !["iso"] = IF iso THEN Running(<<results>>) ELSE @]
          /\ pc' = IF mqm \/ iso THEN "await_gather" ELSE "respond"
    /\ UNCHANGED <<request, submitted, results, initial_translation, cultural_analysis,
                   refined_translation, quality_assessment, mqm_analysis, iso_compliance,
                   final_text, response, raised>>
    /\ UNCHANGED batch_vars
    /\ UNCHANGED invocations
    /\ UNCHANGED api_vars

\* a plausible slip: the orchestrator goes on once the first task is done
GatherDone_FirstTaskOnly(tasks, c) == c[tasks[1]].st = "done"

\* line 188: await asyncio.gather(...) returns once every task has finished
GatherDone(tasks, c) == \A i \in 1..Len(tasks) : c[tasks[i]].st = "done"

\* lines 188-215: after the join the results are processed in list order
Phase5Resume ==
    /\ pc = "await_gather"
    /\ GatherDone(advanced_tasks, call)
    /\ LET has_mqm == \E i \in 1..Len(advanced_tasks) : advanced_tasks[i] = "mqm"
           has_iso == \E i \in 1..Len(advanced_tasks) : advanced_tasks[i] = "iso"
           mqm_result == call["mqm"].ret
           iso_result == call["iso"].ret
           mm == IF has_mqm THEN MQMAnalysis(mqm_result) ELSE None
           im == IF has_iso THEN ISOCompliance(iso_result) ELSE None
           after_mqm == IF has_mqm THEN results @@ [mqm_analysis |-> mqm_result]
                        ELSE results
       IN IF IsExc(mm)
          THEN /\ Raise(mm)
               /\ UNCHANGED <<mqm_analysis, iso_compliance, results>>
          ELSE /\ mqm_analysis' = mm
               /\ IF IsExc(im)
                  THEN /\ Raise(im)
                       /\ results' = after_mqm
                       /\ UNCHANGED iso_compliance
                  ELSE /\ iso_compliance' = im
                       /\ results' = IF has_iso
                                     THEN after_mqm @@ [iso_compliance |-> iso_result]
                                     ELSE after_mqm
                       /\ pc' = "respond"
                       /\ UNCHANGED raised
    /\ UNCHANGED <<request, submitted, initial_translation, cultural_analysis,
                   refined_translation, quality_assessment, final_text, advanced_tasks,
                   call, response>>
    /\ UNCHANGED batch_vars
    /\ UNCHANGED invocations
    /\ UNCHANGED api_vars

\* lines 217-231
Respond ==
    /\ pc = "respond"
    /\ response' = [request_id |-> "request_id",
                    source_text |-> request.source_text,
                    target_language |-> request.target_language,
                    initial_translation |-> initial_translation,
                    cultural_analysis |-> cultural_analysis,
                    refined_translation |-> refined_translation,
                    quality_assessment |-> quality_assessment,
                    mqm_analysis |-> mqm_analysis,
                    iso_compliance |-> iso_compliance,
                    final_translation |-> None]
    /\ pc' = "returned"
    /\ UNCHANGED <<request, submitted, results, initial_translation, cultural_analysis,
                   refined_translation, quality_assessment, mqm_analysis, iso_compliance,
                   final_text, advanced_tasks, call, raised>>
    /\ UNCHANGED batch_vars
    /\ UNCHANGED invocations
    /\ UNCHANGED api_vars

\* ---------------------------------------- _run_agent_async: executor threads
\* lines 285-288: the agent function runs in a worker thread with the
\* arguments it was dispatched with and one reply of the generation service
Finish(stage, reply, ret) ==
    /\ call' = [call EXCEPT ![stage] = Done(@, reply, ret)]
    /\ UNCHANGED <<request, submitted, pc, results, initial_translation,
                   cultural_analysis, refined_translation, quality_assessment,
                   mqm_analysis, iso_compliance, final_text, advanced_tasks,
                   response, raised>>
    /\ invocations' = [invocations EXCEPT ![stage] = @ + 1]
    /\ UNCHANGED batch_vars
    /\ UNCHANGED api_vars

RunTranslator ==
    /\ call["translate"].st = "running"
    /\ \E reply \in TranslatorReplies \cup {FAIL} :
          LET a == call["translate"].args
          IN Finish("translate", reply, TranslatorAgent_translate(a[1], a[2], reply))

RunCulturalAdvisor ==
    /\ call["cultural"].st = "running"
    /\ \E reply \in CulturalReplies \cup {FAIL} :
          LET a == call["cultural"].args
          IN Finish("cultural", reply, CulturalAdvisor_analyze(a[1], a[2], a[3], reply))

RunReviewer ==
    /\ call["review"].st = "running"
    /\ \E reply \in ReviewReplies \cup {FAIL} :
          LET a == call["review"].args
          IN Finish("review", reply, ReviewerAgent_review(a[1], a[2], a[3], a[4], reply))

RunQualityAssessor ==
    /\ call["quality_assess"].st = "running"
    /\ \E reply \in QualityReplies \cup {FAIL} :
          LET a == call["quality_assess"].args
          IN Finish("quality_assess", reply, QualityAssessor_assess(a[1], a[2], a[3], reply))

RunMQM ==
    /\ call["mqm"].st = "running"
    /\ \E reply \in PipelineMQMReplies \cup {FAIL} :
          LET a == call["mqm"].args
          IN Finish("mqm", reply, MQMFramework_analyze(a[1], a[2], a[3], reply))

\* validate is handed the results dict itself (a reference), which it reads
\* when it runs
RunISO ==
    /\ call["iso"].st = "running"
    /\ Finish("iso", None, ISOStandards_validate(results))

Next ==
    \/ ApplyQualityMode
    \/ Phase1
    \/ Phase1Resume
    \/ Phase2
    \/ Phase2Resume
    \/ Phase3
    \/ Phase3Resume
    \/ Phase4
    \/ Phase4Resume
    \/ Phase5
    \/ Phase5Resume
    \/ Respond
    \/ RunTranslator
    \/ RunCulturalAdvisor
    \/ RunReviewer
    \/ RunQualityAssessor
    \/ RunMQM
    \/ RunISO

Spec == Init /\ [][Next]_vars

\* The steps of the translate coroutine itself.  The event loop runs the
\* coroutine whenever it is ready, so these steps are taken when enabled.
\* Nothing makes the generation service answer: translate passes no
\* timeout to it (agents: client.chat.completions.create(...) without
\* timeout) and awaits run_in_executor without a deadline (lines 285-288),
\* so the executor steps carry no fairness.
Orchestrate ==
    \/ ApplyQualityMode
    \/ Phase1
    \/ Phase1Resume
    \/ Phase2
    \/ Phase2Resume
    \/ Phase3
    \/ Phase3Resume
    \/ Phase4
    \/ Phase4Resume
    \/ Phase5
    \/ Phase5Resume
    \/ Respond

SpecLive == Spec /\ WF_vars(Orchestrate)

\* ------------------------------------------ MQMFramework.analyze on its own
\* analyze is also called directly (api/routes/quality.py:260-265).  This
\* specification starts with one call of analyze dispatched and lets the
\* generation service answer anything from MQMReplies.
MaxErrors == 2

ScoreSamples ==
    {-Pts(5), 0, 5999, Pts(60), 6999, Pts(70), 7999, Pts(80), 8499, Pts(85),
     8999, Pts(90), 9475, Pts(100), Pts(120)}

ErrorSamples == {MistranslationMajor, SpellingMinor}

ErrorLists == UNION {[1..n -> ErrorSamples] : n \in 0..MaxErrors}

CountCategory(errors, category) ==
    Cardinality({i \in 1..Len(errors) : errors[i].category = category})

MQMReplies ==
    {[total_score |-> sc, word_count |-> 2, errors |-> errs,
      error_summary |-> Summary(Len(errs), CountCategory(errs, "accuracy"),
                                CountCategory(errs, "fluency"),
                                CountCategory(errs, "style"),
                                CountCategory(errs, "terminology")),
      mqm_grade |-> g, industry_compliance |-> ic] :
        sc \in ScoreSamples, errs \in ErrorLists, g \in QualityGrade, ic \in BOOLEAN}

InitMQM ==
    /\ request \in {r \in Requests :
                      /\ r.quality_mode = "QUALITY"
                      /\ r.target_language = "swedish"
                      /\ r.include_review /\ r.include_cultural_analysis
                      /\ r.include_quality_assessment /\ r.include_mqm_analysis
                      /\ r.include_iso_compliance}
    /\ submitted = request
    /\ pc = "standalone"
    /\ results = EmptyDict
    /\ initial_translation = None
    /\ cultural_analysis = None
    /\ refined_translation = None
    /\ quality_assessment = None
    /\ mqm_analysis = None
    /\ iso_compliance = None
    /\ final_text = <<>>
    /\ advanced_tasks = <<>>
    /\ call = [s \in Stages |->
                 IF s = "mqm"
                 THEN Running(<<request.source_text, <<"hej">>, EmptyDict>>)
                 ELSE Idle]
    /\ response = None
    /\ raised = None
    /\ invocations = [s \in Stages |-> 0]
    /\ NoBatch
    /\ NoApi

AnalyzeMQM ==
    /\ call["mqm"].st = "running"
    /\ \E reply \in MQMReplies \cup {FAIL} :
          LET a == call["mqm"].args
          IN Finish("mqm", reply, MQMFramework_analyze(a[1], a[2], a[3], reply))

NextMQM == AnalyzeMQM

SpecMQM == InitMQM /\ [][NextMQM]_vars

\* ------------------------------------------ ISOStandards.validate on its own
\* validate is a function of the results dictionary alone.  It is called with
\* the dictionary translate has built so far (translation_service.py:180-184)
\* and with the one check_iso_compliance builds from a request
\* (api/routes/quality.py:317-335).  This specification starts with one call
\* dispatched on any dictionary of ISOInputs; a key validate reads may be
\* absent at every level, as the .get(...) chains allow.
Opt(key, values) == {EmptyDict} \cup {[k \in {key} |-> v] : v \in values}

Absent == {None}

InitialTranslationInputs == Absent \cup {[translation |-> <<"hej">>]}

CulturalInputs ==
    Absent \cup {a @@ f : a \in Opt("cultural_appropriateness", {"high", "medium", "low"}),
                          f \in Opt("target_audience_fit", {"good", "fair"})}

RefinedInputs == Absent \cup Opt("review_comments", {<<>>, <<"c">>})

QualityInputs ==
    Absent \cup
    {o @@ d : o \in Opt("overall_score", {Pts(84), Pts(85), Pts(90)}),
              d \in Opt("detailed_scores",
                        {g @@ v : g \in Opt("grammar", {Pts(84), Pts(85)}),
                                  v \in Opt("vocabulary", {Pts(84), Pts(85)})})}

MQMInputs ==
    Absent \cup
    {t @@ s : t \in Opt("total_score", {Pts(79), Pts(80)}),
              s \in Opt("error_summary", Opt("terminology_errors", {2, 3}))}

\* the dictionary with the given values under the five keys; None leaves
\* the key out
ResultsDict(it, ca, rt, qa, mqm) ==
    LET all == [initial_translation |-> it, cultural_analysis |-> ca,
                refined_translation |-> rt, quality_assessment |-> qa,
                mqm_analysis |-> mqm]
    IN [k \in {x \in DOMAIN all : all[x] # None} |-> all[k]]

ISOInputs ==
    {ResultsDict(it, ca, rt, qa, mqm) :
        it \in InitialTranslationInputs, ca \in CulturalInputs, rt \in RefinedInputs,
        qa \in QualityInputs, mqm \in MQMInputs}

InitISO ==
    /\ request \in {r \in Requests :
                      /\ Len(r.source_text) = 1
                      /\ r.quality_mode = "QUALITY"
                      /\ r.target_language = "swedish"
                      /\ r.include_review /\ r.include_cultural_analysis
                      /\ r.include_quality_assessment /\ r.include_mqm_analysis
                      /\ r.include_iso_compliance}
    /\ submitted = request
    /\ pc = "standalone"
    /\ results \in ISOInputs
    /\ initial_translation = None
    /\ cultural_analysis = None
    /\ refined_translation = None
    /\ quality_assessment = None
    /\ mqm_analysis = None
    /\ iso_compliance = None
    /\ final_text = <<>>
    /\ advanced_tasks = <<>>
    /\ call = [s \in Stages |-> IF s = "iso" THEN Running(<<results>>) ELSE Idle]
    /\ response = None
    /\ raised = None
    /\ invocations = [s \in Stages |-> 0]
    /\ NoBatch
    /\ NoApi

NextISO == RunISO

SpecISO == InitISO /\ [][NextISO]_vars

\* ------------------------------ core/translation_service: translate_batch
\* translate_batch starts one translate coroutine per request and gathers
\* them (lines 245-246).  The jobs of this specification are requests for
\* which translate runs the translate stage only (QUALITY mode, every
\* include flag off), so a job is: dispatch the translator, await it, build
\* the response or raise.  Each job has its own call record and its own
\* reply of the generation service; the jobs interleave freely.
MaxJobs == 3

BatchRequests ==
    {r \in Requests :
        /\ Len(r.source_text) = 1
        /\ r.quality_mode = "QUALITY"
        /\ ~r.include_review /\ ~r.include_cultural_analysis
        /\ ~r.include_quality_assessment /\ ~r.include_mqm_analysis
        /\ ~r.include_iso_compliance}

\* one conforming reply and one without the translation
BatchTranslatorReplies == {r \in TranslatorReplies : r.confidence = Pts(90)}

\* TranslationResponse(...) of a job that ran the translate stage only
\* (lines 219-231) and of an error slot (lines 256-270)
TranslationResponse(source_text, target_language, initial) ==
    [request_id |-> "request_id",
     source_text |-> source_text,
     target_language |-> target_language,
     initial_translation |-> initial,
     cultural_analysis |-> None,
     refined_translation |-> None,
     quality_assessment |-> None,
     mqm_analysis |-> None,
     iso_compliance |-> None,
     final_translation |-> None]

\* lines 76-235 for a request with every include flag off: what translate
\* returns, or the exception it raises, once the translator has returned
translate_resume(req, initial_result) ==
    LET m == TranslationResult(initial_result)
    IN IF IsExc(m)
       THEN [exc |-> "Exception", message |-> <<"Translation failed:", m.exc>>]
       ELSE TranslationResponse(req.source_text, req.target_language, m)

InitBatch ==
    /\ requests \in UNION {[1..n -> BatchRequests] : n \in 1..MaxJobs}
    /\ batch_tasks = <<>>
    /\ finished = <<>>
    /\ batch_pc = "entry"
    /\ batch_response = None
    /\ request = requests[1]
    /\ submitted = request
    /\ pc = "idle"
    /\ results = EmptyDict
    /\ initial_translation = None
    /\ cultural_analysis = None
    /\ refined_translation = None
    /\ quality_assessment = None
    /\ mqm_analysis = None
    /\ iso_compliance = None
    /\ final_text = <<>>
    /\ advanced_tasks = <<>>
    /\ call = [s \in Stages |-> Idle]
    /\ response = None
    /\ raised = None
    /\ invocations = [s \in Stages |-> 0]
    /\ NoApi

job_vars ==
    <<request, submitted, pc, results, initial_translation, cultural_analysis,
      refined_translation, quality_assessment, mqm_analysis, iso_compliance,
      final_text, advanced_tasks, call, response, raised, invocations>>

\* lines 245-246: the coroutines are created and gathered; each runs, in
\* list order, up to its first await: the mode override is written into its
\* request and the translator is handed to the executor (lines 45-74)
BatchStart ==
    /\ batch_pc = "entry"
    /\ requests' = [i \in 1..Len(requests) |-> OverrideFlags(requests[i])]
    /\ batch_tasks' =
          [i \in 1..Len(requests) |->
              [pc |-> "await_translate",
               call |-> Running(<<requests[i].source_text, requests[i].target_language>>),
               outcome |-> None]]
    /\ batch_pc' = "await_gather"
    /\ UNCHANGED <<finished, batch_response>>
    /\ UNCHANGED job_vars
    /\ UNCHANGED api_vars

\* the translator of some job i runs in a worker thread
JobRunTranslator ==
    /\ \E i \in 1..Len(batch_tasks) :
          /\ batch_tasks[i].call.st = "running"
          /\ \E reply \in BatchTranslatorReplies \cup {FAIL} :
                LET a == batch_tasks[i].call.args
                IN batch_tasks' =
                      [batch_tasks EXCEPT ![i].call =
                          Done(@, reply, TranslatorAgent_translate(a[1], a[2], reply))]
    /\ UNCHANGED <<requests, finished, batch_pc, batch_response>>
    /\ UNCHANGED job_vars
    /\ UNCHANGED api_vars

\* a plausible slip: the translator's result is kept in one place on the
\* service, where every job reads what the first job's call returned
AwaitedResult_SharedSlot(ts, i) ==
    IF ts[1].call.st = "done" THEN ts[1].call.ret ELSE ts[i].call.ret

\* lines 70-74: initial_result is a local of the coroutine, bound to what the
\* job's own executor future returns
AwaitedResult(ts, i) == ts[i].call.ret

\* some job i resumes after its await and runs to its return or its raise
JobResume ==
    /\ \E i \in 1..Len(batch_tasks) :
          /\ batch_tasks[i].pc = "await_translate"
          /\ batch_tasks[i].call.st = "done"
          /\ LET outcome == translate_resume(requests[i], AwaitedResult(batch_tasks, i))
             IN batch_tasks' =
                   [batch_tasks EXCEPT
                       ![i].pc = IF IsExc(outcome) THEN "raised" ELSE "returned",
                       ![i].outcome = outcome]
          /\ finished' = Append(finished, i)
    /\ UNCHANGED <<requests, batch_pc, batch_response>>
    /\ UNCHANGED job_vars
    /\ UNCHANGED api_vars

JobFinished(t) == t.pc \in {"returned", "raised"}

\* a plausible slip: gather with its default, return_exceptions=False
return_exceptions_Default == FALSE

\* line 246: asyncio.gather(*tasks, return_exceptions=True)
return_exceptions == TRUE

\* asyncio.gather resumes its awaiter when every task has finished; without
\* return_exceptions also as soon as one task has raised
GatherResumes(ts) ==
    \/ \A i \in 1..Len(ts) : JobFinished(ts[i])
    \/ ~return_exceptions /\ \E i \in 1..Len(ts) : ts[i].pc = "raised"

\* a plausible slip: the results in the order the jobs finished
GatherResults_CompletionOrder(ts, order) == [k \in 1..Len(ts) |-> ts[order[k]].outcome]

\* what gather returns with return_exceptions: the result or the exception of
\* every task, in the order of the tasks
GatherResults(ts, order) == [i \in 1..Len(ts) |-> ts[i].outcome]

\* without return_exceptions the first exception a task raises is raised
\* by the await of gather
GatherRaises(ts) == ~return_exceptions /\ \E i \in 1..Len(ts) : ts[i].pc = "raised"

FirstRaised(ts, order) ==
    ts[order[CHOOSE k \in 1..Len(order) :
                /\ ts[order[k]].pc = "raised"
                /\ \A j \in 1..(k - 1) : ts[order[j]].pc # "raised"]].outcome

\* lines 254-270: the slot of a job whose result is an exception
error_response(req, result) ==
    LET m == TranslationResult(
                 [translation |-> <<"Translation failed:">> \o result.message,
                  confidence |-> 0,
                  translation_notes |-> <<"Error in translation process">>,
                  difficulty_level |-> "error",
                  key_decisions |-> <<>>])
    IN IF IsExc(m) THEN m
       ELSE TranslationResponse(req.source_text, req.target_language, m)

\* a plausible slip: every slot counted as a success
success_count_AllSlots(reqs, error_count) == Len(reqs)

\* line 279: success_count=len(requests) - error_count
success_count(reqs, error_count) == Len(reqs) - error_count

\* lines 248-283: the loop over the gathered results and the response
BatchTranslationResponse(reqs, gathered) ==
    LET successful_results ==
            [i \in 1..Len(gathered) |->
                IF IsExc(gathered[i]) THEN error_response(reqs[i], gathered[i])
                ELSE gathered[i]]
        error_count == Cardinality({i \in 1..Len(gathered) : IsExc(gathered[i])})
    IN IF \E i \in 1..Len(gathered) : IsExc(successful_results[i])
       THEN Exc("ValidationError")
       ELSE [request_id |-> "batch_id",
             results |-> successful_results,
             success_count |-> success_count(reqs, error_count),
             error_count |-> error_count]

\* lines 246-283: translate_batch resumes from the gather; an exception the
\* gather raises, or a model constructor raises, leaves translate_batch
BatchGather ==
    /\ batch_pc = "await_gather"
    /\ GatherResumes(batch_tasks)
    /\ LET r == IF GatherRaises(batch_tasks)
                THEN FirstRaised(batch_tasks, finished)
                ELSE BatchTranslationResponse(requests,
                                              GatherResults(batch_tasks, finished))
       IN /\ batch_response' = r
          /\ batch_pc' = IF IsExc(r) THEN "raised" ELSE "returned"
    /\ UNCHANGED <<requests, batch_tasks, finished>>
    /\ UNCHANGED job_vars
    /\ UNCHANGED api_vars

NextBatch ==
    \/ BatchStart
    \/ JobRunTranslator
    \/ JobResume
    \/ BatchGather

SpecBatch == InitBatch /\ [][NextBatch]_vars

\* ----------------------------------- api/routes/translation: the two routes
\* The body of a request is validated by the pydantic request model before
\* the handler runs (api/models.py:49-86), then by the handler, and only
\* then is the service called.  This specification follows a submission from
\* the route to the first dispatch of a stage.  A raw text is its tokens
\* (words and blanks) together with its length in characters, so that the
\* length limits apply to texts of any size.
MaxBatch == 11

max_length == 10000

MAX_TEXT_LENGTH == 10000

max_items == 10

min_items == 1

SUPPORTED_LANGUAGES == {"swedish", "dutch"}

RawTexts ==
    {[tokens |-> <<>>, length |-> 0],
     [tokens |-> <<" ">>, length |-> 1],
     [tokens |-> <<"tablet">>, length |-> 6],
     [tokens |-> <<" ", "tablet", " ">>, length |-> 8],
     [tokens |-> <<"tablet">>, length |-> max_length],
     [tokens |-> <<"tablet">>, length |-> max_length + 1]}

RawRequests ==
    [source_text : RawTexts,
     target_language : LanguageCode \cup {"french"},
     quality_mode : {"BALANCED"}]

GoodRawRequest ==
    [source_text |-> [tokens |-> <<"tablet">>, length |-> 6],
     target_language |-> "swedish",
     quality_mode |-> "BALANCED"]

\* the bodies of POST /translate and of POST /translate/batch; a batch holds
\* at most one request that is not the plain one
Submissions ==
    {[route |-> "translate", body |-> r] : r \in RawRequests}
    \cup {[route |-> "batch", body |-> [i \in 1..n |-> GoodRawRequest]] : n \in 0..MaxBatch}
    \cup {[route |-> "batch", body |-> [i \in 1..n |-> IF i = k THEN r ELSE GoodRawRequest]] :
             n \in 1..MaxBatch, k \in 1..MaxBatch, r \in RawRequests}

\* str.strip() on a raw text
RECURSIVE lstrip(_)
lstrip(t) ==
    IF t.tokens # <<>> /\ Head(t.tokens) = " "
    THEN lstrip([tokens |-> Tail(t.tokens), length |-> t.length - 1])
    ELSE t

RECURSIVE rstrip(_)
rstrip(t) ==
    IF t.tokens # <<>> /\ t.tokens[Len(t.tokens)] = " "
    THEN rstrip([tokens |-> SubSeq(t.tokens, 1, Len(t.tokens) - 1), length |-> t.length - 1])
    ELSE t

strip(t) == rstrip(lstrip(t))

\* a plausible slip: the validator strips without rejecting a blank text
validate_source_text_NoBlankCheck(v) == strip(v)

\* api/models.py:69-73
validate_source_text(v) ==
    IF strip(v).length = 0 THEN Exc("ValueError") ELSE strip(v)

\* TranslationRequest(**body): the request object, or the validation error.
\* The request keeps the words of the text; the include flags take their
\* default
TranslationRequest(body) ==
    IF body.source_text.length < 1 \/ body.source_text.length > max_length
    THEN Exc("ValidationError")
    ELSE IF body.target_language \notin LanguageCode THEN Exc("ValidationError")
    ELSE LET v == validate_source_text(body.source_text)
         IN IF IsExc(v) THEN Exc("ValidationError")
            ELSE [source_text |-> v.tokens,
                  length |-> v.length,
                  target_language |-> body.target_language,
                  quality_mode |-> body.quality_mode,
                  include_review |-> TRUE,
                  include_cultural_analysis |-> TRUE,
                  include_quality_assessment |-> TRUE,
                  include_mqm_analysis |-> TRUE,
                  include_iso_compliance |-> TRUE]

\* BatchTranslationRequest(**body): the list of request objects, or the
\* validation error
BatchTranslationRequest(body) ==
    IF Len(body) < min_items \/ Len(body) > max_items THEN Exc("ValidationError")
    ELSE IF \E i \in 1..Len(body) : IsExc(TranslationRequest(body[i]))
         THEN Exc("ValidationError")
         ELSE [translations |-> [i \in 1..Len(body) |-> TranslationRequest(body[i])]]

\* routes/translation.py:54-65 and 167-181: the handler's own checks
RouteRejects(req) ==
    \/ req.length > MAX_TEXT_LENGTH
    \/ req.target_language \notin SUPPORTED_LANGUAGES

\* the request object as translate sees it
ServiceRequest(req) ==
    [source_text |-> req.source_text,
     target_language |-> req.target_language,
     quality_mode |-> req.quality_mode,
     include_review |-> req.include_review,
     include_cultural_analysis |-> req.include_cultural_analysis,
     include_quality_assessment |-> req.include_quality_assessment,
     include_mqm_analysis |-> req.include_mqm_analysis,
     include_iso_compliance |-> req.include_iso_compliance]

HTTPError(status) == [status |-> status]

InitAPI ==
    /\ submission \in Submissions
    /\ api_pc = "received"
    /\ api_response = None
    /\ NoBatch
    /\ request = None
    /\ submitted = None
    /\ pc = "idle"
    /\ results = EmptyDict
    /\ initial_translation = None
    /\ cultural_analysis = None
    /\ refined_translation = None
    /\ quality_assessment = None
    /\ mqm_analysis = None
    /\ iso_compliance = None
    /\ final_text = <<>>
    /\ advanced_tasks = <<>>
    /\ call = [s \in Stages |-> Idle]
    /\ response = None
    /\ raised = None
    /\ invocations = [s \in Stages |-> 0]

\* POST /translate (routes/translation.py:35-72), up to the await of
\* service.translate
translate_text ==
    /\ api_pc = "received"
    /\ submission.route = "translate"
    /\ LET req == TranslationRequest(submission.body)
       IN IF IsExc(req)
          THEN /\ api_response' = HTTPError(422)
               /\ api_pc' = "rejected"
               /\ UNCHANGED <<request, submitted, pc>>
          ELSE IF RouteRejects(req)
          THEN /\ api_response' = HTTPError(400)
               /\ api_pc' = "rejected"
               /\ UNCHANGED <<request, submitted, pc>>
          ELSE /\ request' = ServiceRequest(req)
               /\ submitted' = ServiceRequest(req)
               /\ pc' = "entry"
               /\ api_pc' = "await_service"
               /\ UNCHANGED api_response
    /\ UNCHANGED <<submission, results, initial_translation, cultural_analysis,
                   refined_translation, quality_assessment, mqm_analysis, iso_compliance,
                   final_text, advanced_tasks, call, response, raised, invocations>>
    /\ UNCHANGED batch_vars

\* POST /translate/batch (routes/translation.py:148-192), up to the await
\* of service.translate_batch
translate_batch ==
    /\ api_pc = "received"
    /\ submission.route = "batch"
    /\ LET b == BatchTranslationRequest(submission.body)
       IN IF IsExc(b)
          THEN /\ api_response' = HTTPError(422)
               /\ api_pc' = "rejected"
               /\ UNCHANGED <<requests, batch_pc>>
          ELSE IF Len(b.translations) > max_items
                  \/ \E i \in 1..Len(b.translations) : RouteRejects(b.translations[i])
          THEN /\ api_response' = HTTPError(400)
               /\ api_pc' = "rejected"
               /\ UNCHANGED <<requests, batch_pc>>
          ELSE /\ requests' = [i \in 1..Len(b.translations) |->
                                  ServiceRequest(b.translations[i])]
               /\ batch_pc' = "entry"
               /\ api_pc' = "await_service"
               /\ UNCHANGED api_response
    /\ UNCHANGED <<submission, batch_tasks, finished, batch_response>>
    /\ UNCHANGED job_vars

NextAPI ==
    \/ translate_text
    \/ translate_batch
    \/ ApplyQualityMode
    \/ Phase1
    \/ RunTranslator
    \/ BatchStart

SpecAPI == InitAPI /\ [][NextAPI]_vars

\* ------------------------------------------------------------ properties
\* vocabulary of the properties
GenerationStages == Stages \ {"iso"}

\* the response model the orchestrator builds from a stage's return value
ModelOf(stage, ret) ==
    CASE stage = "translate" -> TranslationResult(ret)
      [] stage = "cultural" -> CulturalAnalysis(ret)
      [] stage = "review" -> ReviewResult(ret)
      [] stage = "quality_assess" -> QualityAssessment(ret)
      [] stage = "mqm" -> MQMAnalysis(ret)
      [] OTHER -> ISOCompliance(ret)

\* the fallback payload of a stage for the arguments it was called with
FallbackOf(stage, args) ==
    CASE stage = "translate" -> TranslatorFallback
      [] stage = "cultural" -> CulturalFallback
      [] stage = "review" -> ReviewFallback(args[2])
      [] stage = "quality_assess" -> QualityFallback
      [] OTHER -> MQMFallback(args[1])

\* the stage's generation call failed
Failed(stage) == call[stage].st = "done" /\ IsFail(call[stage].reply)

\* the stage's generation call answered with a payload its model accepts
Conforming(stage) ==
    /\ call[stage].st = "done"
    /\ ~IsFail(call[stage].reply)
    /\ ~IsExc(ModelOf(stage, call[stage].reply))

\* the stage's generation call answered with a payload its model rejects
Mismatched(stage) ==
    /\ call[stage].st = "done"
    /\ ~IsFail(call[stage].reply)
    /\ IsExc(ModelOf(stage, call[stage].reply))

Returned == pc = "returned"

\* C1: a job in which stages' generation calls fail, and every call that
\* answers gives a conforming payload, is never aborted: translate does not
\* raise (each failed stage got its fallback and the rest still ran).
C1_StageFailureNeverAborts ==
    (\A s \in GenerationStages : call[s].st = "done" => (Failed(s) \/ Conforming(s)))
        => pc # "raised"

\* C2: the fallback payload a stage substitutes when its call fails is
\* accepted by the stage's result model.
C2_FallbackSatisfiesSchema ==
    \A s \in GenerationStages : Failed(s) => ~IsExc(ModelOf(s, call[s].ret))

\* C3: a reply that does not match the stage's schema is converted into the
\* stage's fallback result at the stage boundary and translate does not raise.
C3_MismatchBecomesFallback ==
    \A s \in GenerationStages :
        Mismatched(s) => /\ call[s].ret = FallbackOf(s, call[s].args)
                         /\ pc # "raised"

\* C4: translate never raises past the orchestrator boundary.
C4_TranslateNeverRaises == pc # "raised" /\ raised = None

\* C5: in FAST mode, whatever flags the caller set, cultural, quality_assess,
\* mqm and iso are never executed, and a returned result holds exactly the
\* initial translation and the refined translation.
C5_FastRunsOnlyTranslateAndReview ==
    submitted.quality_mode = "FAST" =>
        /\ \A s \in {"cultural", "quality_assess", "mqm", "iso"} : call[s].st = "idle"
        /\ Returned =>
              /\ call["translate"].st = "done"
              /\ call["review"].st = "done"
              /\ response.initial_translation = TranslationResult(call["translate"].ret)
              /\ response.refined_translation = ReviewResult(call["review"].ret)
              /\ ~IsExc(response.initial_translation)
              /\ ~IsExc(response.refined_translation)
              /\ response.cultural_analysis = None
              /\ response.quality_assessment = None
              /\ response.mqm_analysis = None
              /\ response.iso_compliance = None

\* a FAST job that returned although the caller asked for mqm and iso and
\* did not ask for a review
C5_Witness ==
    /\ Returned
    /\ submitted.quality_mode = "FAST"
    /\ submitted.include_mqm_analysis
    /\ submitted.include_iso_compliance
    /\ submitted.include_quality_assessment
    /\ ~submitted.include_review

\* C6: in BALANCED mode mqm and iso are never executed, and a returned result
\* holds the translate, cultural, review and quality_assess outputs (each
\* built from what the stage returned, real or fallback), with mqm, iso and
\* the synthesized final translation absent.
C6_BalancedRunsFourStages ==
    submitted.quality_mode = "BALANCED" =>
        /\ call["mqm"].st = "idle"
        /\ call["iso"].st = "idle"
        /\ Returned =>
              /\ \A s \in {"translate", "cultural", "review", "quality_assess"} :
                    call[s].st = "done"
              /\ response.initial_translation = TranslationResult(call["translate"].ret)
              /\ response.cultural_analysis = CulturalAnalysis(call["cultural"].ret)
              /\ response.refined_translation = ReviewResult(call["review"].ret)
              /\ response.quality_assessment = QualityAssessment(call["quality_assess"].ret)
              /\ \A f \in {"initial_translation", "cultural_analysis",
                           "refined_translation", "quality_assessment"} :
                    response[f] # None /\ ~IsExc(response[f])
              /\ response.mqm_analysis = None
              /\ response.iso_compliance = None
              /\ response.final_translation = None

\* a BALANCED job that returned with a fallback cultural analysis, although
\* the caller asked for mqm and iso and for none of the other stages
C6_Witness ==
    /\ Returned
    /\ submitted.quality_mode = "BALANCED"
    /\ submitted.include_mqm_analysis
    /\ submitted.include_iso_compliance
    /\ ~submitted.include_cultural_analysis
    /\ ~submitted.include_quality_assessment
    /\ Failed("cultural")

\* C7 as stated: every QUALITY job that completes has an mqm result and an iso
\* result, whatever the include_* flags of the request.
C7_QualityAlwaysHasMqmAndIso ==
    (submitted.quality_mode = "QUALITY" /\ Returned) =>
        /\ response.mqm_analysis # None
        /\ response.iso_compliance # None

\* C7 amended: QUALITY mode keeps the flags as provided: a completed QUALITY
\* job has an mqm result exactly when the request asked for mqm analysis and
\* for quality assessment, and an iso result exactly when it asked for iso
\* compliance; no flag of the request is changed.
C7_QualityKeepsFlags ==
    submitted.quality_mode = "QUALITY" =>
        /\ request = submitted
        /\ Returned =>
              /\ response.mqm_analysis # None
                    <=> (submitted.include_mqm_analysis /\ submitted.include_quality_assessment)
              /\ response.iso_compliance # None <=> submitted.include_iso_compliance

\* a completed QUALITY job with both results, and one with the mqm flag
\* set and no mqm result, are both reachable; this is the first
C7_Witness ==
    /\ Returned
    /\ submitted.quality_mode = "QUALITY"
    /\ response.mqm_analysis # None
    /\ response.iso_compliance # None
    /\ response.cultural_analysis = None

\* C8: a stage is dispatched only after its active dependencies have settled
\* and been stored, and the arguments it is given are their completed outputs.
C8_StagesSeeSettledDependencies ==
    /\ call["cultural"].st # "idle" =>
          /\ call["translate"].st = "done"
          /\ results.initial_translation = call["translate"].ret
          /\ call["cultural"].args[2] = call["translate"].ret.translation
    /\ call["review"].st # "idle" =>
          /\ call["translate"].st = "done"
          /\ call["review"].args[2] = call["translate"].ret.translation
          /\ IF request.include_cultural_analysis
             THEN /\ call["cultural"].st = "done"
                  /\ call["review"].args[3] = call["cultural"].ret
                  /\ results.cultural_analysis = call["cultural"].ret
             ELSE call["review"].args[3] = EmptyDict
    /\ call["quality_assess"].st # "idle" =>
          /\ call["translate"].st = "done"
          /\ IF request.include_review
             THEN /\ call["review"].st = "done"
                  /\ call["quality_assess"].args[2] = call["review"].ret.final_translation
             ELSE call["quality_assess"].args[2] = call["translate"].ret.translation
    /\ call["mqm"].st # "idle" =>
          /\ call["quality_assess"].st = "done"
          /\ call["mqm"].args[3] = call["quality_assess"].ret
          /\ call["mqm"].args[2] = final_text
    /\ call["iso"].st # "idle" =>
          /\ \A s \in {"translate", "cultural", "review", "quality_assess"} :
                call[s].st \in {"idle", "done"}
          /\ request.include_quality_assessment =>
                results.quality_assessment = call["quality_assess"].ret
          /\ call["iso"].st = "running" => call["iso"].args[1] = results

\* all six stages dispatched, the reviewer having been given a real cultural
\* analysis
C8_Witness ==
    /\ call["mqm"].st # "idle"
    /\ call["iso"].st # "idle"
    /\ Conforming("cultural")
    /\ call["review"].st = "done"
    /\ call["review"].args[3] = call["cultural"].ret

\* C9: when mqm and iso are both active they are dispatched in the same step
\* (neither waits for the other), and nothing is stored, returned or raised
\* before both have finished.
C9_GatherJoinsBoth ==
    Len(advanced_tasks) = 2 =>
        /\ call["mqm"].st # "idle"
        /\ call["iso"].st # "idle"
        /\ (\/ pc # "await_gather"
            \/ "mqm_analysis" \in DOMAIN results
            \/ "iso_compliance" \in DOMAIN results
            \/ mqm_analysis # None
            \/ iso_compliance # None
            \/ response # None
            \/ raised # None)
              => (call["mqm"].st = "done" /\ call["iso"].st = "done")

\* iso, second in the task list, has finished while mqm is still running
C9_Witness ==
    /\ Len(advanced_tasks) = 2
    /\ pc = "await_gather"
    /\ call["iso"].st = "done"
    /\ call["mqm"].st = "running"

RECURSIVE SumPenalties(_)
SumPenalties(errors) ==
    IF errors = <<>> THEN 0 ELSE Head(errors).penalty + SumPenalties(Tail(errors))

Clamp(x, lo, hi) == IF x < lo THEN lo ELSE IF x > hi THEN hi ELSE x

\* the error's penalty is the entry of the fixed table for its triple
PenaltyFromTable(e) ==
    /\ e.category \in DOMAIN error_categories
    /\ e.subcategory \in DOMAIN error_categories[e.category]
    /\ e.severity \in DOMAIN error_categories[e.category][e.subcategory]
    /\ e.penalty = error_categories[e.category][e.subcategory][e.severity]

\* C10: in every result analyze returns, total_score is
\* clamp(100 + sum of the penalties of its errors, 0, 100), each penalty being
\* the table entry of the error's (category, subcategory, severity).
C10_TotalScoreIsClampedPenaltySum ==
    call["mqm"].st = "done" =>
        LET r == call["mqm"].ret
            errors == Get(r, "errors", <<>>)
        IN /\ "total_score" \in DOMAIN r
           /\ \A i \in 1..Len(errors) : PenaltyFromTable(errors[i])
           /\ r.total_score = Clamp(Pts(100) + SumPenalties(errors), 0, Pts(100))

\* the grade the grading scale assigns to a score
GradeOf(score) ==
    IF score >= Pts(90) THEN "A"
    ELSE IF score >= Pts(80) THEN "B"
    ELSE IF score >= Pts(70) THEN "C"
    ELSE IF score >= Pts(60) THEN "D"
    ELSE "F"

\* C11: in every result analyze returns, mqm_grade is the step function of
\* total_score: A from 90, B from 80, C from 70, D from 60, F below 60.
C11_GradeIsStepFunctionOfScore ==
    call["mqm"].st = "done" =>
        LET r == call["mqm"].ret
        IN /\ {"total_score", "mqm_grade"} \subseteq DOMAIN r
           /\ r.mqm_grade = GradeOf(r.total_score)

\* C12: in every result analyze returns, success or fallback,
\* industry_compliance is true exactly when total_score >= 85.
C12_ComplianceIffScoreAtLeast85 ==
    call["mqm"].st = "done" =>
        LET r == call["mqm"].ret
        IN /\ {"total_score", "industry_compliance"} \subseteq DOMAIN r
           /\ r.industry_compliance <=> (r.total_score >= Pts(85))

\* the result of the call of validate, once it has returned
IsoDone == call["iso"].st = "done"

IsoResult == call["iso"].ret

\* the weight, in hundredths, the specification gives each area
ClaimedWeight ==
    [a \in {AreaNames[i] : i \in 1..5} |->
        CASE a = "Translation Competence" -> 25
          [] a = "Quality Assurance" -> 25
          [] a = "Project Management" -> 20
          [] OTHER -> 15]

RECURSIVE WeightedSum(_, _)
WeightedSum(scores, areas) ==
    IF areas = {} THEN 0
    ELSE LET a == CHOOSE x \in areas : TRUE
         IN scores[a] * ClaimedWeight[a] + WeightedSum(scores, areas \ {a})

\* C13: validate returns score = 100 x the sum over the five areas of
\* area score x area weight, the weights being 0.25, 0.25, 0.20, 0.15, 0.15
\* and summing to 1.0; score lies in [0,100]; compliant iff score >= 85.
C13_ScoreIsWeightedSum ==
    IsoDone =>
        LET r == IsoResult
        IN /\ DOMAIN r.detailed_scores = DOMAIN ClaimedWeight
           /\ r.score = WeightedSum(r.detailed_scores, DOMAIN ClaimedWeight)
           /\ iso_requirements.translation_competence + iso_requirements.quality_assurance
              + iso_requirements.project_management + iso_requirements.technical_resources
              + iso_requirements.client_requirements = 100
           /\ r.score >= 0 /\ r.score <= Pts(100)
           /\ r.compliant <=> (r.score >= Pts(85))

\* validate has returned a compliant result at the threshold region: the
\* areas are not all perfect, the score is still at least 85
C13_Witness ==
    /\ IsoDone
    /\ IsoResult.compliant
    /\ IsoResult.score >= Pts(85) /\ IsoResult.score < Pts(100)
    /\ \E a \in DOMAIN IsoResult.detailed_scores : IsoResult.detailed_scores[a] < 100

\* the number of recommendations the result holds for an area
RecommendationsFor(r, area) ==
    Cardinality({i \in 1..Len(r.recommendations) : r.recommendations[i] = area})

\* C14: in the result of validate an area is marked compliant iff its area
\* score >= 0.85, and recommendations holds exactly one entry for each
\* non-compliant area and none for a compliant one.
C14_AreaCompliantIffScoreAtLeast85 ==
    IsoDone =>
        LET r == IsoResult
        IN /\ DOMAIN r.compliance_areas = DOMAIN r.detailed_scores
           /\ \A a \in DOMAIN r.detailed_scores :
                 /\ r.compliance_areas[a] <=> (r.detailed_scores[a] >= 85)
                 /\ RecommendationsFor(r, a) = IF r.compliance_areas[a] THEN 0 ELSE 1
           /\ \A i \in 1..Len(r.recommendations) :
                 r.recommendations[i] \in DOMAIN r.detailed_scores

\* validate has returned a result with a compliant area short of a full
\* score, without a recommendation, and a non-compliant area with one
C14_Witness ==
    /\ IsoDone
    /\ \E a, b \in DOMAIN IsoResult.detailed_scores :
          /\ IsoResult.detailed_scores[a] >= 85 /\ IsoResult.detailed_scores[a] < 100
          /\ IsoResult.compliance_areas[a] /\ RecommendationsFor(IsoResult, a) = 0
          /\ ~IsoResult.compliance_areas[b] /\ RecommendationsFor(IsoResult, b) = 1

\* the dictionary validate was called with
IsoInput == call["iso"].args[1]

\* the value found in dictionary d along the path of keys, or absent
RECURSIVE Lookup(_, _, _)
Lookup(d, path, absent) ==
    IF path = <<>> THEN d
    ELSE IF Head(path) \in DOMAIN d THEN Lookup(d[Head(path)], Tail(path), absent)
    ELSE absent

GrammarAtLeast85(d) ==
    Lookup(d, <<"quality_assessment", "detailed_scores", "grammar">>, 0) >= Pts(85)

CulturallyAppropriate(d) ==
    Lookup(d, <<"cultural_analysis", "cultural_appropriateness">>, "") \in {"high", "medium"}

OverallAtLeast85(d) ==
    Lookup(d, <<"quality_assessment", "overall_score">>, 0) >= Pts(85)

\* C15: the translation_competence area score is 0.40 if grammar >= 85, plus
\* 0.35 if cultural appropriateness is high or medium, plus 0.25 if the
\* overall quality score >= 85, clamped to 1.0.  When all three are false,
\* absent quality or cultural outputs included, the score is 0, the area is
\* non-compliant and a recommendation for it is emitted.
C15_TranslationCompetenceRule ==
    IsoDone =>
        LET r == IsoResult
            d == IsoInput
            area == "Translation Competence"
            sum == (IF GrammarAtLeast85(d) THEN 40 ELSE 0)
                   + (IF CulturallyAppropriate(d) THEN 35 ELSE 0)
                   + (IF OverallAtLeast85(d) THEN 25 ELSE 0)
        IN /\ r.detailed_scores[area] = IF sum > 100 THEN 100 ELSE sum
           /\ (~GrammarAtLeast85(d) /\ ~CulturallyAppropriate(d) /\ ~OverallAtLeast85(d))
                 => /\ r.detailed_scores[area] = 0
                    /\ ~r.compliance_areas[area]
                    /\ RecommendationsFor(r, area) = 1

\* validate has returned for an input without quality and cultural outputs:
\* all three predicates are false and the recommendation is there
C15_Witness ==
    /\ IsoDone
    /\ {"quality_assessment", "cultural_analysis"} \cap DOMAIN IsoInput = {}
    /\ IsoResult.detailed_scores["Translation Competence"] = 0
    /\ RecommendationsFor(IsoResult, "Translation Competence") = 1

\* validate has returned for an input with cultural appropriateness medium
\* and the two quality predicates true: the area scores the full 1.0
C15_WitnessFull ==
    /\ IsoDone
    /\ Lookup(IsoInput, <<"cultural_analysis", "cultural_appropriateness">>, "") = "medium"
    /\ GrammarAtLeast85(IsoInput) /\ OverallAtLeast85(IsoInput)
    /\ IsoResult.detailed_scores["Translation Competence"] = 100

\* C16: the quality_assurance area score is 0.50 if a review stage ran, plus
\* 0.30 if the MQM total_score >= 80, plus 0.20 if a quality_assess stage ran;
\* in particular a job whose mqm stage produced total_score >= 80 has the
\* 0.30 in the compliance result of the same job.
C16_MqmScoreCountsInQualityAssurance ==
    (/\ pc = "returned"
     /\ response.mqm_analysis # None
     /\ response.iso_compliance # None
     /\ response.mqm_analysis.total_score >= Pts(80))
    => response.iso_compliance.detailed_scores["Quality Assurance"]
         = Min((IF response.refined_translation # None THEN 50 ELSE 0)
               + 30
               + (IF response.quality_assessment # None THEN 20 ELSE 0), 100)

\* the inputs the area rules are predicates of
PredicateInputs ==
    {"translate_ran", "cultural_ran", "review_ran", "quality_ran", "grammar", "vocabulary",
     "overall", "appropriateness", "fit", "review_comments", "mqm_total", "terminology_errors"}

\* the value dictionary d gives a predicate input; a missing entry is a
\* value of its own
InputValue(d, p) ==
    CASE p = "translate_ran" -> "initial_translation" \in DOMAIN d
      [] p = "cultural_ran" -> "cultural_analysis" \in DOMAIN d
      [] p = "review_ran" -> "refined_translation" \in DOMAIN d
      [] p = "quality_ran" -> "quality_assessment" \in DOMAIN d
      [] p = "grammar" ->
            Lookup(d, <<"quality_assessment", "detailed_scores", "grammar">>, -1)
      [] p = "vocabulary" ->
            Lookup(d, <<"quality_assessment", "detailed_scores", "vocabulary">>, -1)
      [] p = "overall" -> Lookup(d, <<"quality_assessment", "overall_score">>, -1)
      [] p = "appropriateness" ->
            Lookup(d, <<"cultural_analysis", "cultural_appropriateness">>, "absent")
      [] p = "fit" -> Lookup(d, <<"cultural_analysis", "target_audience_fit">>, "absent")
      [] p = "review_comments" ->
            Lookup(d, <<"refined_translation", "review_comments">>, <<"absent">>)
      [] p = "mqm_total" -> Lookup(d, <<"mqm_analysis", "total_score">>, -1)
      [] OTHER ->
            Lookup(d, <<"mqm_analysis", "error_summary", "terminology_errors">>, -1)

\* the predicate inputs the rules of each area mention
Mentions ==
    [a \in {AreaNames[i] : i \in 1..5} |->
        CASE a = "Translation Competence" -> {"grammar", "appropriateness", "overall"}
          [] a = "Quality Assurance" -> {"review_ran", "mqm_total", "quality_ran"}
          [] a = "Project Management" ->
                {"review_comments", "translate_ran", "cultural_ran", "review_ran",
                 "quality_ran", "overall"}
          [] a = "Technical Resources" -> {"translate_ran", "vocabulary", "terminology_errors"}
          [] OTHER -> {"fit", "appropriateness", "overall"}]

TopKeys ==
    {"initial_translation", "cultural_analysis", "refined_translation",
     "quality_assessment", "mqm_analysis"}

InputsOf(key) ==
    CASE key = "initial_translation" -> InitialTranslationInputs
      [] key = "cultural_analysis" -> CulturalInputs
      [] key = "refined_translation" -> RefinedInputs
      [] key = "quality_assessment" -> QualityInputs
      [] OTHER -> MQMInputs

\* dictionary d with the value under one key replaced (None removes the key)
Replace(d, key, v) ==
    LET val(k) == IF k = key THEN v ELSE Get(d, k, None)
    IN ResultsDict(val("initial_translation"), val("cultural_analysis"),
                   val("refined_translation"), val("quality_assessment"),
                   val("mqm_analysis"))

Differing(d1, d2) == {p \in PredicateInputs : InputValue(d1, p) # InputValue(d2, p)}

\* the score validate gives an area on input d (iso_standards.py:37-60)
AreaScore(d, area) ==
    CASE area = "Translation Competence" -> _evaluate_translation_competence(d)
      [] area = "Quality Assurance" -> _evaluate_quality_assurance(d)
      [] area = "Project Management" -> _evaluate_project_management(d)
      [] area = "Technical Resources" -> _evaluate_technical_resources(d)
      [] OTHER -> _evaluate_client_requirements(d)

\* C17: for two inputs of validate that differ in exactly one predicate
\* input, every area whose rules do not mention that input has the same
\* area score in both evaluations.  The second input ranges over the
\* dictionaries that differ from the first under one key.
C17_UnrelatedAreasUnchanged ==
    IsoDone =>
        \A key \in TopKeys : \A v \in InputsOf(key) :
            \A d2 \in {Replace(IsoInput, key, v)} :
            \A changed \in {Differing(IsoInput, d2)} :
               Cardinality(changed) = 1 =>
                  \A a \in DOMAIN Mentions :
                      (Mentions[a] \cap changed = {})
                         => IsoResult.detailed_scores[a] = AreaScore(d2, a)

\* validate has returned for an input that has a neighbour differing in the
\* vocabulary score only: technical_resources differs between the two, the
\* other four areas agree
C17_Witness ==
    /\ IsoDone
    /\ \E v \in QualityInputs :
         LET d2 == Replace(IsoInput, "quality_assessment", v)
         IN
          /\ Differing(IsoInput, d2) = {"vocabulary"}
          /\ IsoResult.detailed_scores["Technical Resources"]
               # AreaScore(d2, "Technical Resources")
          /\ \A a \in DOMAIN Mentions \ {"Technical Resources"} :
                IsoResult.detailed_scores[a] = AreaScore(d2, a)

\* translate_batch has returned its response
BatchReturned == batch_pc = "returned"

Slot(i) == batch_response.results[i]

Raisers == {i \in 1..Len(batch_tasks) : batch_tasks[i].pc = "raised"}

\* what translate gives for a request on its own when the generation
\* service answers its translator call with reply
AloneResult(req, reply) ==
    translate_resume(req, TranslatorAgent_translate(req.source_text, req.target_language,
                                                    reply))

\* C18: in translate_batch an exception raised by one job is confined to
\* that job's slot: translate_batch itself does not raise, the slot holds a
\* degraded result whose translation is an error marker with confidence 0,
\* and every sibling has run to completion and has the result it would
\* have had on its own.
C18_ExceptionConfinedToSlot ==
    /\ batch_pc # "raised"
    /\ BatchReturned =>
          \A i \in 1..Len(requests) :
              /\ JobFinished(batch_tasks[i])
              /\ i \in Raisers =>
                    /\ Head(Slot(i).initial_translation.translation) = "Translation failed:"
                    /\ Slot(i).initial_translation.confidence = 0
                    /\ Slot(i).initial_translation.difficulty_level = "error"
                    /\ Slot(i).source_text = requests[i].source_text
              /\ i \notin Raisers =>
                    Slot(i) = AloneResult(requests[i], batch_tasks[i].call.reply)

\* a batch has returned in which job 1 raised before job 2 had finished and
\* job 2 returned its translation
C18_Witness ==
    /\ BatchReturned
    /\ Len(requests) >= 2
    /\ 1 \in Raisers /\ finished[1] = 1
    /\ 2 \notin Raisers
    /\ Slot(2).initial_translation.translation = <<"hej">>
    /\ Slot(1).initial_translation.confidence = 0

\* C19: for a batch of N jobs of which k raise, translate_batch returns
\* error_count = k, success_count = N - k and exactly N result slots;
\* success_count + error_count = N.
C19_CountsMatchRaisers ==
    BatchReturned =>
        /\ batch_response.error_count = Cardinality(Raisers)
        /\ batch_response.success_count = Len(requests) - Cardinality(Raisers)
        /\ Len(batch_response.results) = Len(requests)
        /\ batch_response.success_count + batch_response.error_count = Len(requests)

\* a batch of three jobs has returned, two of which raised
C19_Witness ==
    /\ BatchReturned
    /\ Len(requests) = 3
    /\ Cardinality(Raisers) = 2
    /\ batch_response.success_count = 1 /\ batch_response.error_count = 2
    /\ Len(batch_response.results) = 3

\* C20: translate_batch returns the per-job results in the order of the
\* input list: results[i] is the result, or the degraded error result, of
\* requests[i], whatever order the jobs finished in.
C20_ResultsInInputOrder ==
    BatchReturned =>
        /\ Len(batch_response.results) = Len(requests)
        /\ \A i \in 1..Len(requests) :
              /\ Slot(i) = IF i \in Raisers
                           THEN error_response(requests[i], batch_tasks[i].outcome)
                           ELSE batch_tasks[i].outcome
              /\ Slot(i).target_language = requests[i].target_language

\* a batch has returned whose jobs finished in the reverse of the input
\* order and whose slots differ
C20_Witness ==
    /\ BatchReturned
    /\ Len(requests) = 3
    /\ finished = <<3, 2, 1>>
    /\ Slot(1) # Slot(2) /\ Slot(2) # Slot(3) /\ Slot(1) # Slot(3)
    /\ requests[1].target_language # requests[3].target_language

\* the malformed inputs: a text that is empty or blank, a text longer than
\* the maximum, an unsupported language, a batch of more than ten jobs
MalformedRequest(r) ==
    \/ \A i \in 1..Len(r.source_text.tokens) : r.source_text.tokens[i] = " "
    \/ r.source_text.length > 10000
    \/ r.target_language \notin {"swedish", "dutch"}

Malformed(s) ==
    IF s.route = "translate" THEN MalformedRequest(s.body)
    ELSE Len(s.body) > 10 \/ \E i \in 1..Len(s.body) : MalformedRequest(s.body[i])

NoStageStarted ==
    /\ pc = "idle" /\ batch_pc = "idle"
    /\ \A s \in Stages : call[s].st = "idle" /\ invocations[s] = 0
    /\ batch_tasks = <<>>

C21_WitnessBlank ==
    /\ submission # None
    /\ submission.route = "translate"
    /\ submission.body.source_text.tokens = <<" ">>
    /\ api_pc = "rejected"
    /\ NoStageStarted

\* C22: if a caller-supplied deadline expires while a job is running, its
\* in-flight stage calls are cancelled and the job returns what has settled
\* so far; hence every job eventually returns, even if a stage's external
\* call never responds.
C22_EveryJobEventuallyReturns == <>(pc \in {"returned", "raised"})

\* C23: within one job each stage's generation call is made at most once; a
\* failed call goes straight to the fallback payload and is never made
\* again.
C23_EachStageCalledAtMostOnce ==
    \A s \in Stages :
        /\ invocations[s] <= 1
        /\ invocations[s] = (IF call[s].st = "done" THEN 1 ELSE 0)
        /\ (s \in GenerationStages /\ Failed(s)) =>
              call[s].ret = FallbackOf(s, call[s].args)

\* a job has returned whose review call failed: it was made once and the
\* job carries the fallback
C23_Witness ==
    /\ pc = "returned"
    /\ Failed("review")
    /\ invocations["review"] = 1
    /\ call["review"].ret = FallbackOf("review", call["review"].args)

IncludeFlags ==
    {"include_review", "include_cultural_analysis", "include_quality_assessment",
     "include_mqm_analysis", "include_iso_compliance"}

\* C24: mode-derived stage selection does not mutate: after translate has
\* returned or raised, the caller's request object has the include flags it
\* had before the call, in every quality mode.
C24_RequestFlagsUnchanged ==
    pc \in {"returned", "raised"} =>
        \A f \in IncludeFlags : request[f] = submitted[f]


ReviewStarted == call["review"].st # "idle"

CulturalContext == call["review"].args[3]

\* C25 as stated: whenever the cultural stage is not active (FAST mode, or
\* cultural analysis not requested), the review stage still runs and receives
\* an empty mapping as its cultural context.
C25_ReviewAlwaysRunsWithEmptyContext ==
    (pc = "returned" /\ ~request.include_cultural_analysis) =>
        /\ call["review"].st = "done"
        /\ CulturalContext = EmptyDict

\* C25 (amended): review runs exactly when include_review is set after the
\* mode override (always in FAST and BALANCED mode), and whenever it runs while
\* the cultural stage is not active its cultural context is the empty mapping,
\* never None.
C25_ReviewGetsEmptyContextWhenItRuns ==
    /\ (ReviewStarted /\ ~request.include_cultural_analysis) =>
          /\ CulturalContext = EmptyDict
          /\ CulturalContext # None
    /\ pc = "returned" =>
          /\ (call["review"].st = "done") = request.include_review
          /\ submitted.quality_mode \in {"FAST", "BALANCED"} => request.include_review

C25_Witness ==
    /\ pc = "returned"
    /\ submitted.quality_mode = "FAST"
    /\ call["review"].st = "done"
    /\ CulturalContext = EmptyDict

C25_WitnessQualityNoCultural ==
    /\ pc = "returned"
    /\ submitted.quality_mode = "QUALITY"
    /\ ~request.include_cultural_analysis
    /\ call["review"].st = "done"


\* C26: a falling-back stage that produces translation text returns the best
\* upstream text with zero confidence: the review fallback's final_translation
\* is the initial translation with confidence_improvement 0, and the translate
\* fallback's translation is the source text with confidence 0.
C26_FallbackTextIsUpstreamText ==
    /\ Failed("review") =>
          /\ call["review"].ret.final_translation = call["review"].args[2]
          /\ call["review"].ret.confidence_improvement = 0
    /\ Failed("translate") =>
          /\ call["translate"].ret.translation = call["translate"].args[1]
          /\ call["translate"].ret.confidence = 0

\* the review half of C26 alone, which the reviewer's except block satisfies
C26_ReviewFallbackIsInitialTranslation ==
    Failed("review") =>
        /\ call["review"].ret.final_translation = call["review"].args[2]
        /\ call["review"].ret.final_translation = results.initial_translation.translation
        /\ call["review"].ret.confidence_improvement = 0


ReviewRan == call["review"].st = "done"

EvaluatedText(stage) == call[stage].args[2]

ExpectedEvaluatedText ==
    IF ReviewRan
    THEN call["review"].ret.final_translation
    ELSE call["translate"].ret.translation

\* C27: the text evaluated by quality_assess and by mqm is the review stage's
\* final translation whenever the review stage ran (ok or fallback) and the
\* initial translation otherwise; both stages of a job evaluate the same text.
C27_QualityChecksEvaluateFinalText ==
    /\ \A s \in {"quality_assess", "mqm"} :
          call[s].st # "idle" => EvaluatedText(s) = ExpectedEvaluatedText
    /\ (call["quality_assess"].st # "idle" /\ call["mqm"].st # "idle") =>
          EvaluatedText("quality_assess") = EvaluatedText("mqm")

C27_Witness ==
    /\ call["mqm"].st = "done"
    /\ ReviewRan
    /\ ~Failed("review")
    /\ call["review"].ret.final_translation # call["translate"].ret.translation
    /\ EvaluatedText("mqm") = call["review"].ret.final_translation

C27_WitnessNoReview ==
    /\ call["mqm"].st = "done"
    /\ ~ReviewRan
    /\ EvaluatedText("quality_assess") = call["translate"].ret.translation


ScoreInRange(score) == 0 <= score /\ score <= Pts(100)

\* the quality assessor's reply carries an overall score outside [0,100]
QualityScoreOutOfRange ==
    /\ call["quality_assess"].st = "done"
    /\ ~IsFail(call["quality_assess"].reply)
    /\ "overall_score" \in DOMAIN call["quality_assess"].reply
    /\ ~ScoreInRange(call["quality_assess"].reply.overall_score)

\* C28: every numeric score is clamped before storage: in a returned result
\* the MQM total_score, the quality overall score and the six dimension scores
\* are in [0,100], and an out-of-range value received from the external
\* service is clamped rather than causing the job to fail.
C28_ScoresClampedNotRejected ==
    /\ pc = "returned" =>
          /\ mqm_analysis # None => ScoreInRange(mqm_analysis.total_score)
          /\ quality_assessment # None =>
                /\ ScoreInRange(quality_assessment.overall_score)
                /\ \A k \in QualityDimensions :
                      ScoreInRange(quality_assessment.detailed_scores[k])
    /\ QualityScoreOutOfRange => pc # "raised"

\* the part of C28 the code satisfies: the MQM total_score is clamped
C28_MqmTotalScoreClamped ==
    (call["mqm"].st = "done" /\ "total_score" \in DOMAIN call["mqm"].ret) =>
        ScoreInRange(call["mqm"].ret.total_score)


\* C29: the jobs of a batch share no mutable state: in every interleaving
\* the translator call of job i is made with request i's text and language,
\* and the result (or exception) of job i is what translate gives for
\* request i alone on the outcome of job i's own call.
C29_JobResultDependsOnOwnJobOnly ==
    \A i \in 1..Len(batch_tasks) :
        /\ batch_tasks[i].call.st # "idle" =>
              batch_tasks[i].call.args =
                  <<requests[i].source_text, requests[i].target_language>>
        /\ batch_tasks[i].call.st = "done" =>
              batch_tasks[i].call.ret =
                  TranslatorAgent_translate(requests[i].source_text,
                                            requests[i].target_language,
                                            batch_tasks[i].call.reply)
        /\ JobFinished(batch_tasks[i]) =>
              batch_tasks[i].outcome =
                  AloneResult(requests[i], batch_tasks[i].call.reply)
        /\ ~JobFinished(batch_tasks[i]) => batch_tasks[i].outcome = None

\* two jobs with the same request have finished, the second before the
\* first, with different outcomes of their own translator calls, while a
\* third job is still waiting for its call
C29_Witness ==
    /\ Len(batch_tasks) = 3
    /\ requests[1] = requests[2]
    /\ finished = <<2, 1>>
    /\ batch_tasks[1].pc = "raised"
    /\ batch_tasks[2].pc = "returned"
    /\ batch_tasks[2].outcome.initial_translation.translation = <<"hej">>
    /\ batch_tasks[3].call.st = "running"


\* C30: in translate the dictionary handed to the iso stage never holds the
\* mqm result, so the Quality Assurance area is at most 0.70 and the Technical
\* Resources area at most 0.75, both are always reported non-compliant, and
\* the iso score is at most 88.75.
C30_IsoNeverSeesMqm ==
    /\ call["iso"].st # "idle" => "mqm_analysis" \notin DOMAIN IsoInput
    /\ IsoDone =>
          /\ IsoResult.detailed_scores["Quality Assurance"] <= 70
          /\ IsoResult.detailed_scores["Technical Resources"] <= 75
          /\ ~IsoResult.compliance_areas["Quality Assurance"]
          /\ ~IsoResult.compliance_areas["Technical Resources"]
          /\ IsoResult.score <= 8875

\* a job has returned whose mqm stage scored at least 80 with no terminology
\* error and whose iso result has both areas at their caps
C30_Witness ==
    /\ pc = "returned"
    /\ response.mqm_analysis # None
    /\ response.mqm_analysis.total_score >= Pts(80)
    /\ response.mqm_analysis.error_summary.terminology_errors <= 2
    /\ response.iso_compliance # None
    /\ response.iso_compliance.detailed_scores["Quality Assurance"] = 70
    /\ response.iso_compliance.detailed_scores["Technical Resources"] = 75
    /\ response.iso_compliance.score >= 8874

=============================================================================
